---- MODULE Spec2Model ----
(***************************************************************************)
(* Model of the tile-based precipitation engine of sunnyday (src/jma.rs):  *)
(* the process-wide tile cache, Tile::get_tiles, Tile::count_precipitation *)
(* and Tile::precipitation_with_images: window validation, catalog,        *)
(* anchor, candidates and aggregation; Tile::from_latlon; and the place    *)
(* suggestion built on them: Places::pickup (src/place.rs), Mood           *)
(* (src/mood.rs), the console's today_place and the web's place_handler.   *)
(***************************************************************************)
EXTENDS Integers, Sequences, FiniteSets, TLC

\* ------------------------------------------------------------------ bounds
\* sequential pushes explored by SpecFifo
MaxPushes == 13
\* concurrent callers of the cache operations (SpecCache)
NumCallers == 2
\* cache_push calls started in SpecCache
MaxCacheOps == 3
\* distinct valid times of the catalog entries used as probes and candidates
NumSlices == 2
\* candidate resolutions explored by SpecTiles
MaxResolutions == 4
\* runs of equal pixels in the tiles given to count_precipitation (SpecCount)
MaxRuns == 2
\* last hour the clock of SpecWindow reaches
MaxClock == 25
\* entries of the catalogs the service returns in SpecCall
MaxCatalog == 2
\* entries of the catalogs the service returns in SpecScan
MaxScan == 3
\* slots of the cache that hold arbitrary entries in SpecKey
KeySlots == 2
\* largest zoom level given to from_latlon in SpecGeo
MaxZoom == 12
\* places of the Places databases given to pickup in SpecPick
MaxPlaces == 2
\* candidate resolutions explored by SpecRace, all callers together
MaxRaceResolutions == 2
\* callers that each run one cache_push at the same time (SpecPush)
NumPushers == 4
\* largest precipitation and probability the forecasts report in SpecMood
MaxForecast == 2
\* largest rotation_days a history file gives in SpecRecent
MaxRotation == 3
\* longest list of a history file in SpecRecent
MaxHistory == 2

\* ------------------------------------------------------- program constants
\* const CACHE_SIZE: usize = 12
CACHE_SIZE == 12
\* the tile is 256 x 256 pixels (loops 0..256 of count_precipitation)
TILE_SIDE == 256
\* Duration::days(365), the initial duration_min of the anchor search
DURATION_MIN_DAYS == 365
\* the zoom level Mood::check_precipitation gives to from_latlon
FORECAST_ZOOM == 10

\* ------------------------------------------------------------ Option<T>
None == [tag |-> "None"]
Some(v) == [tag |-> "Some", val |-> v]

\* an f32 result, kept exact as numerator over denominator (the sums of
\* count_precipitation stay below 2^24 and the divisor is a power of two, so
\* the f32 division is exact)
Ratio(n, d) == [num |-> n, den |-> d]

\* ------------------------------------------------------------- TileMeta
\* struct TileMeta { basetime, validtime, member, elements, precipitation, image }
TileMeta(b, v, m, e, p, i) ==
  [basetime |-> b, validtime |-> v, member |-> m, elements |-> e,
   precipitation |-> p, image |-> i]

\* mutant of TileMetaEq: every field is compared
TileMetaEqAllFields(a, b) == a = b

\* impl PartialEq for TileMeta: the three key strings only
TileMetaEq(a, b) ==
  /\ a.basetime = b.basetime
  /\ a.validtime = b.validtime
  /\ a.member = b.member

\* a catalog entry as deserialized: precipitation and image are #[serde(skip)],
\* so they take their defaults (None, "")
CatalogEntry(v) == TileMeta("base", v, "none", <<"rasrf">>, None, <<>>)

\* ----------------------------------------------------- pixel classifier
\* the RGBA values count_precipitation matches on
Violet == <<180, 0, 104, 255>>
Red == <<255, 40, 0, 255>>
Orange == <<255, 153, 0, 255>>
Yellow == <<250, 245, 0, 255>>
Blue == <<0, 65, 255, 255>>
Water == <<33, 140, 255, 255>>
SkyBlue == <<160, 210, 255, 255>>
SubtleBlue == <<242, 242, 255, 255>>
Clear == <<0, 0, 0, 0>>
ClearWhite == <<255, 255, 255, 0>>

Palette == {Violet, Red, Orange, Yellow, Blue, Water, SkyBlue, SubtleBlue,
            Clear, ClearWhite}

\* colours the match does not list: the commented-out orange of the source and
\* opaque black
OffPalette == {<<255, 245, 0, 255>>, <<0, 0, 0, 255>>}

\* mutant of Intensity: the yellow band weighs 3 instead of 30
IntensityYellow3(rgba) ==
  CASE rgba = Violet -> <<8, 100>>
    [] rgba = Red -> <<7, 80>>
    [] rgba = Orange -> <<6, 50>>
    [] rgba = Yellow -> <<5, 3>>
    [] rgba = Blue -> <<4, 20>>
    [] rgba = Water -> <<3, 10>>
    [] rgba = SkyBlue -> <<2, 5>>
    [] rgba = SubtleBlue -> <<1, 1>>
    [] rgba = Clear -> <<0, 0>>
    [] rgba = ClearWhite -> <<0, 0>>
    [] OTHER -> <<-1, -1>>

\* the match of count_precipitation: (band, weight) of a pixel; <<-1, -1>>
\* stands for the arm that panics
Intensity(rgba) ==
  CASE rgba = Violet -> <<8, 100>>
    [] rgba = Red -> <<7, 80>>
    [] rgba = Orange -> <<6, 50>>
    [] rgba = Yellow -> <<5, 30>>
    [] rgba = Blue -> <<4, 20>>
    [] rgba = Water -> <<3, 10>>
    [] rgba = SkyBlue -> <<2, 5>>
    [] rgba = SubtleBlue -> <<1, 1>>
    [] rgba = Clear -> <<0, 0>>
    [] rgba = ClearWhite -> <<0, 0>>
    [] OTHER -> <<-1, -1>>

\* A decoded tile is the sequence of its pixels in the order the loops visit
\* them (x outer, y inner), written as runs [rgba, len] of equal pixels whose
\* lengths add up to TILE_SIDE * TILE_SIDE.
NumPixels == TILE_SIDE * TILE_SIDE

\* the loops of count_precipitation over one tile, a run of equal pixels adding
\* its weight len times; the result is "panic" when a pixel hits the last arm
RECURSIVE count_loop(_, _, _)
count_loop(image, i, precipitation) ==
  IF i > Len(image) THEN Some(precipitation)
  ELSE LET intensity == Intensity(image[i].rgba) IN
       IF intensity[1] < 0 THEN [tag |-> "panic"]
       ELSE count_loop(image, i + 1, precipitation + intensity[2] * image[i].len)

\* Tile::count_precipitation: precipitation as f32 / (256.0 * 256.0)
count_precipitation(image) ==
  LET r == count_loop(image, 1, 0) IN
  IF r.tag = "panic" THEN r ELSE Some(Ratio(r.val, TILE_SIDE * TILE_SIDE))

\* Tile::base64png: the tile resized to 32 x 32 (nearest filter), PNG-encoded
\* and base64-encoded; the encoded string is abstracted to the colours of the
\* first and last pixel of the tile
base64png(png) == Some(<<"png32", png[1].rgba, png[Len(png)].rgba>>)

\* ---------------------------------------------------------------- CACHE
\* static CACHE: vec![None; CACHE_SIZE]
CacheInit == [i \in 1..CACHE_SIZE |-> None]

\* mutant of cache_push_remove: the newest slot is removed instead of the oldest
cache_push_remove_last(v) == SubSeq(v, 1, Len(v) - 1)

\* mutant of cache_push_remove: nothing is removed
cache_push_remove_none(v) == v

\* CACHE.lock().unwrap().remove(0)   (first lock section of cache_push)
cache_push_remove(v) == Tail(v)

\* mutant of cache_push_append: slots that hold the same key are updated too
cache_push_append_update(v, meta) ==
  Append([i \in 1..Len(v) |->
            IF v[i].tag = "Some" /\ TileMetaEq(v[i].val, meta) THEN Some(meta) ELSE v[i]],
         Some(meta))

\* CACHE.lock().unwrap().push(Some(meta))   (second lock section of cache_push)
cache_push_append(v, meta) == Append(v, Some(meta))

\* cache_push run by one caller with no other caller in between
cache_push(v, meta) == cache_push_append(cache_push_remove(v), meta)

\* cache_search: the first slot, in slot order, that holds an equal TileMeta
RECURSIVE cache_search_from(_, _, _)
cache_search_from(v, meta, i) ==
  IF i > Len(v) THEN [tag |-> "Err"]
  ELSE IF v[i].tag = "Some" /\ TileMetaEq(v[i].val, meta)
       THEN [tag |-> "Ok", val |-> v[i].val]
       ELSE cache_search_from(v, meta, i + 1)

cache_search(v, meta) == cache_search_from(v, meta, 1)

\* mutant of cache_search_slots: a hit moves the slot found to the back
cache_search_slots_touch(v, meta) ==
  LET hits == {i \in 1..Len(v) : v[i].tag = "Some" /\ TileMetaEq(v[i].val, meta)} IN
  IF hits = {} THEN v
  ELSE LET i == CHOOSE h \in hits : \A j \in hits : h <= j IN
       Append([k \in 1..(Len(v) - 1) |-> IF k < i THEN v[k] ELSE v[k + 1]], v[i])

\* the slots after cache_search: the lock guard is only iterated over
cache_search_slots(v, meta) == v

\* -------------------------------------------------------------- get_tile
\* What the tile request of get_tile can come back with: a transport error
\* (reqwest::get or resp.bytes() returns Err), a non-2xx reply (its body is not
\* an image), a body that does not decode, or a PNG that decodes to a tile.
AllClearTile == <<[rgba |-> Clear, len |-> NumPixels]>>
RainTile == <<[rgba |-> Clear, len |-> NumPixels - TILE_SIDE],
              [rgba |-> Blue, len |-> TILE_SIDE]>>
OffPaletteTile == <<[rgba |-> Clear, len |-> NumPixels - 1],
                    [rgba |-> <<0, 0, 0, 255>>, len |-> 1]>>

TileImages == {AllClearTile, RainTile, OffPaletteTile}

Responses ==
  {[kind |-> "neterr"], [kind |-> "non2xx"], [kind |-> "undecodable"]}
  \cup {[kind |-> "png", image |-> g] : g \in TileImages}

\* Tile::get_tile: .unwrap() on the transport result panics; reader.decode()
\* gives Some(image) or, on Err, None
get_tile(resp) ==
  CASE resp.kind = "neterr" -> [tag |-> "panic"]
    [] resp.kind = "png" -> Some(resp.image)
    [] OTHER -> None

\* mutant of get_tiles_hit: every entry cache_search finds counts as a hit
get_tiles_hit_any(found) == found.tag = "Ok"

\* Tile::get_tiles, lines 293-298: the found entry short-circuits the fetch
\* only when its precipitation is not None
get_tiles_hit(found) == found.tag = "Ok" /\ found.val.precipitation # None

\* Tile::get_tiles, lines 293-295: the meta after the lookup
get_tiles_lookup(meta, found) ==
  IF found.tag = "Ok"
  THEN [meta EXCEPT !.precipitation = found.val.precipitation,
                    !.image = found.val.image]
  ELSE meta

\* Tile::get_tiles, lines 300-309: the meta after get_tile returned tile
\* ([tag |-> "panic"] when count_precipitation panics)
get_tiles_fetched(meta, tile) ==
  IF tile.tag = "Some"
  THEN LET p == count_precipitation(tile.val)
           b == base64png(tile.val) IN
       IF p.tag = "panic" THEN p
       ELSE Some([meta EXCEPT !.precipitation = p,
                              !.image = IF b.tag = "Some" THEN b.val ELSE <<>>])
  ELSE Some([meta EXCEPT !.precipitation = None, !.image = <<>>])

\* ---------------------------------------------------------------- state
VARIABLES
  cache,      \* CACHE: Vec<Option<TileMeta>>
  poisoned,   \* the CACHE mutex is poisoned (a caller panicked holding it)
  pushed,     \* SpecFifo: the metas pushed so far, in push order (history)
  cpc,        \* SpecCache: per caller, "idle" or "removed" (inside cache_push)
  carg,       \* SpecCache: per caller, the meta being pushed
  cfound,     \* SpecCache: per caller, the result of its last cache_search
  cops,       \* SpecCache: cache_push calls started
  tpc,        \* get_tiles: per caller, its position in get_tiles
  metas,      \* get_tiles: per caller, the metas argument (updated in place)
  idx,        \* get_tiles: per caller, the index of the meta being resolved
  cur,        \* history: per caller, the record of its current resolution
  prev,       \* history: the record of the resolution completed before it
  requests,   \* history: tile requests issued
  npushes,    \* history: cache_push calls completed by get_tiles
  nres,       \* history: candidates handed to get_tiles so far
  grid,       \* SpecCount: the decoded tile given to count_precipitation
  cstate,     \* SpecCount: "ready", "done" or "panicked"
  cresult,    \* SpecCount: what count_precipitation returned
  clock,      \* the system clock, in hours
  debug,      \* the build has debug assertions enabled
  wpc,        \* precipitation_with_images: position of the call
  part,       \* precipitation_with_images: the PartOfDay argument
  now_jst,    \* precipitation_with_images: Local::now()
  begin,      \* precipitation_with_images: begin
  end,        \* precipitation_with_images: end
  now,        \* precipitation_with_images: Utc::now()
  wres,       \* precipitation_with_images: the value returned
  catalog,    \* precipitation_with_images: the catalog TileMeta::new() gave
  now_index,  \* precipitation_with_images: the anchor index (from 0)
  wmetas,     \* precipitation_with_images: metas, the candidates
  catreqs,    \* history: catalog requests issued
  wcache0,    \* history: the cache when the call started
  tile_in,    \* Tile::from_latlon: the arguments (zoom, lat, lon)
  tile_out,   \* Tile::from_latlon: the Tile returned
  places,     \* the Places database (parking, shop)
  query,      \* what the user asked: front end, options, weather check
  mood,       \* the Mood built from the user's options
  picked,     \* what Places::pickup returned
  moods,      \* today_place: moods, the Vec the pickups run over
  recent,     \* the RecentPlace history (rotation_days, morning, afternoon)
  rlast,      \* history: the last RecentPlace call, its result, the state before
  mpc         \* position of the place suggestion

cacheVars == <<cache, poisoned>>
callVars == <<cpc, carg, cfound, cops>>
tileVars == <<tpc, metas, idx, cur, prev, requests, npushes, nres>>
countVars == <<grid, cstate, cresult>>
winVars == <<clock, debug, wpc, part, now_jst, begin, end, now, wres>>
aggVars == <<catalog, now_index, wmetas, catreqs, wcache0>>
appVars == <<tile_in, tile_out, places, query, mood, picked, moods, recent, rlast, mpc>>

vars == <<cache, poisoned, pushed, cpc, carg, cfound, cops,
          tpc, metas, idx, cur, prev, requests, npushes, nres,
          grid, cstate, cresult,
          clock, debug, wpc, part, now_jst, begin, end, now, wres,
          catalog, now_index, wmetas, catreqs, wcache0,
          tile_in, tile_out, places, query, mood, picked, moods, recent, rlast, mpc>>

Callers == 1..NumCallers

\* values a stored precipitation takes in the cache-only specifications
PrecChoices == {None, Some(Ratio(0, TILE_SIDE * TILE_SIDE))}

NoRes == [status |-> "none"]

CallerIdle ==
  /\ cpc = [c \in Callers |-> "idle"]
  /\ carg = [c \in Callers |-> None]
  /\ cfound = [c \in Callers |-> None]
  /\ cops = 0

TilesIdle ==
  /\ tpc = [c \in Callers |-> "idle"]
  /\ metas = [c \in Callers |-> <<>>]
  /\ idx = [c \in Callers |-> 0]
  /\ cur = [c \in Callers |-> NoRes]
  /\ prev = NoRes
  /\ requests = 0
  /\ npushes = 0
  /\ nres = 0

CountIdle ==
  /\ grid = <<>>
  /\ cstate = "idle"
  /\ cresult = None

WindowIdle ==
  /\ clock = 0
  /\ debug = FALSE
  /\ wpc = "idle"
  /\ part = "Morning"
  /\ now_jst = 0
  /\ begin = 0
  /\ end = 0
  /\ now = 0
  /\ wres = None

AppIdle ==
  /\ tile_in = None
  /\ tile_out = None
  /\ places = None
  /\ query = None
  /\ mood = None
  /\ picked = None
  /\ moods = <<>>
  /\ recent = None
  /\ rlast = None
  /\ mpc = "idle"

AggIdle ==
  /\ catalog = <<>>
  /\ now_index = 0
  /\ wmetas = <<>>
  /\ catreqs = 0
  /\ wcache0 = CacheInit

\* ------------------------------------------------ SpecFifo: one caller
InitFifo ==
  /\ cache = CacheInit
  /\ poisoned = FALSE
  /\ pushed = <<>>
  /\ CallerIdle
  /\ AggIdle
  /\ TilesIdle
  /\ AppIdle
  /\ CountIdle
  /\ WindowIdle

\* the n-th sequential cache_push, with a key no earlier push used
FifoPush ==
  /\ Len(pushed) < MaxPushes
  /\ \E p \in PrecChoices :
       LET meta == TileMeta("base", Len(pushed) + 1, "none", <<"rasrf">>, p, <<>>) IN
       /\ cache' = cache_push(cache, meta)
       /\ pushed' = Append(pushed, meta)
  /\ UNCHANGED <<poisoned, callVars, tileVars, countVars, winVars, aggVars, appVars>>

NextFifo == FifoPush

SpecFifo == InitFifo /\ [][NextFifo]_vars

\* ------------------------------------- SpecCache: interleaved callers
InitCache ==
  /\ cache = CacheInit
  /\ poisoned = FALSE
  /\ pushed = <<>>
  /\ CallerIdle
  /\ AggIdle
  /\ TilesIdle
  /\ AppIdle
  /\ CountIdle
  /\ WindowIdle

ProbeMetas == {TileMeta("base", v, "none", <<"rasrf">>, p, <<>>) :
                 v \in 1..NumSlices, p \in PrecChoices}

\* cache_push, first lock section: remove(0) panics on an empty Vec while the
\* guard is held, which poisons the mutex; lock().unwrap() on a poisoned mutex
\* panics too
PushRemove(c) ==
  /\ cpc[c] = "idle"
  /\ ~poisoned
  /\ cops < MaxCacheOps
  /\ \E meta \in ProbeMetas :
       IF cache = <<>>
       THEN /\ poisoned' = TRUE
            /\ cpc' = [cpc EXCEPT ![c] = "panicked"]
            /\ UNCHANGED <<cache, carg>>
       ELSE /\ cache' = cache_push_remove(cache)
            /\ cpc' = [cpc EXCEPT ![c] = "removed"]
            /\ carg' = [carg EXCEPT ![c] = Some(meta)]
            /\ UNCHANGED poisoned
  /\ cops' = cops + 1
  /\ UNCHANGED <<pushed, cfound, tileVars, countVars, winVars, aggVars, appVars>>

\* cache_push, second lock section
PushAppend(c) ==
  /\ cpc[c] = "removed"
  /\ ~poisoned
  /\ cache' = cache_push_append(cache, carg[c].val)
  /\ cpc' = [cpc EXCEPT ![c] = "idle"]
  /\ carg' = [carg EXCEPT ![c] = None]
  /\ UNCHANGED <<poisoned, pushed, cfound, cops, tileVars, countVars, winVars, aggVars, appVars>>

\* cache_search: one lock section, the cache is only read
Search(c) ==
  /\ cpc[c] = "idle"
  /\ ~poisoned
  /\ \E v \in 1..NumSlices :
       /\ cfound' = [cfound EXCEPT ![c] = cache_search(cache, CatalogEntry(v))]
       /\ cache' = cache_search_slots(cache, CatalogEntry(v))
  /\ UNCHANGED <<poisoned, pushed, cpc, carg, cops, tileVars, countVars, winVars, aggVars, appVars>>

NextCache == \E c \in Callers : PushRemove(c) \/ PushAppend(c) \/ Search(c)

SpecCache == InitCache /\ [][NextCache]_vars

\* ------------------------------ SpecTiles: get_tiles run by one caller
InitTiles ==
  /\ cache = CacheInit
  /\ poisoned = FALSE
  /\ pushed = <<>>
  /\ CallerIdle
  /\ AggIdle
  /\ TilesIdle
  /\ AppIdle
  /\ CountIdle
  /\ WindowIdle

\* the candidate lists precipitation_with_images builds: catalog entries of
\* contiguous indices, from the anchor towards index 0
MetasInputs ==
  {[i \in 1..(hi - lo + 1) |-> CatalogEntry(hi - i + 1)] :
     hi \in 1..NumSlices, lo \in 1..NumSlices} \ {<<>>}

\* the for loop of get_tiles moves on to the next meta, or get_tiles returns
Advance(c) ==
  /\ idx' = [idx EXCEPT ![c] = @ + 1]
  /\ tpc' = [tpc EXCEPT ![c] = IF idx[c] < Len(metas[c]) THEN "search" ELSE "idle"]

\* get_tiles is called with the candidates of one window, one of inputs,
\* while the candidates handed over stay within budget
GetTilesOf(c, inputs, budget) ==
  /\ tpc[c] = "idle"
  /\ \E ms \in inputs :
       /\ nres + Len(ms) <= budget
       /\ metas' = [metas EXCEPT ![c] = ms]
       /\ nres' = nres + Len(ms)
  /\ idx' = [idx EXCEPT ![c] = 1]
  /\ tpc' = [tpc EXCEPT ![c] = "search"]
  /\ UNCHANGED <<cacheVars, pushed, callVars, cur, prev, requests, npushes,
               countVars, winVars, aggVars, appVars>>

GetTiles(c) == GetTilesOf(c, MetasInputs, MaxResolutions)

\* lines 293-299: cache_search, the copy of the cached values and the hit test
TSearch(c) ==
  /\ tpc[c] = "search"
  /\ LET meta == metas[c][idx[c]]
         found == cache_search(cache, meta)
         m1 == get_tiles_lookup(meta, found)
         hit == get_tiles_hit(found)
         rec == [status |-> IF hit THEN "hit" ELSE "fetch",
                 meta |-> m1,
                 found |-> IF found.tag = "Err" THEN "Err"
                           ELSE IF found.val.precipitation = None THEN "OkNone"
                           ELSE "OkSome",
                 hadOk |-> \E i \in 1..Len(cache) :
                             /\ cache[i].tag = "Some"
                             /\ TileMetaEq(cache[i].val, meta)
                             /\ cache[i].val.precipitation # None,
                 cache0 |-> cache,
                 req |-> FALSE,
                 resp |-> None,
                 pushed |-> FALSE]
     IN /\ metas' = [metas EXCEPT ![c][idx[c]] = m1]
        /\ cur' = [cur EXCEPT ![c] = rec]
        /\ prev' = IF cur[c].status = "none" THEN prev ELSE cur[c]
        /\ IF hit THEN Advance(c)
                  ELSE /\ tpc' = [tpc EXCEPT ![c] = "request"]
                       /\ UNCHANGED idx
  /\ UNCHANGED <<cacheVars, pushed, callVars, requests, npushes, nres,
               countVars, winVars, aggVars, appVars>>

\* get_tile, line 261: the tile request is issued
TRequest(c) ==
  /\ tpc[c] = "request"
  /\ requests' = requests + 1
  /\ cur' = [cur EXCEPT ![c].req = TRUE, ![c].status = "await"]
  /\ tpc' = [tpc EXCEPT ![c] = "await"]
  /\ UNCHANGED <<cacheVars, pushed, callVars, metas, idx, prev, npushes, nres,
               countVars, winVars, aggVars, appVars>>

\* get_tile, lines 261-273, and get_tiles, lines 300-309: the reply, one of
\* resps, arrives and the meta is filled in; a panic ends the caller
TResponseOf(c, resps) ==
  /\ tpc[c] = "await"
  /\ \E resp \in resps :
       LET tile == get_tile(resp)
           m2 == IF tile.tag = "panic" THEN tile
                 ELSE get_tiles_fetched(metas[c][idx[c]], tile)
       IN IF m2.tag = "panic"
          THEN /\ tpc' = [tpc EXCEPT ![c] = "panicked"]
               /\ cur' = [cur EXCEPT ![c].resp = Some(resp), ![c].status = "panicked"]
               /\ UNCHANGED metas
          ELSE /\ tpc' = [tpc EXCEPT ![c] = "remove"]
               /\ cur' = [cur EXCEPT ![c].resp = Some(resp), ![c].status = "push",
                                     ![c].meta = m2.val]
               /\ metas' = [metas EXCEPT ![c][idx[c]] = m2.val]
  /\ UNCHANGED <<cacheVars, pushed, callVars, idx, prev, requests, npushes, nres,
               countVars, winVars, aggVars, appVars>>

TResponse(c) == TResponseOf(c, Responses)

\* cache_push(meta.clone()), first lock section
TPushRemove(c) ==
  /\ tpc[c] = "remove"
  /\ IF poisoned \/ cache = <<>>
     THEN /\ poisoned' = TRUE
          /\ tpc' = [tpc EXCEPT ![c] = "panicked"]
          /\ cur' = [cur EXCEPT ![c].status = "panicked"]
          /\ UNCHANGED cache
     ELSE /\ cache' = cache_push_remove(cache)
          /\ tpc' = [tpc EXCEPT ![c] = "append"]
          /\ UNCHANGED <<poisoned, cur>>
  /\ UNCHANGED <<pushed, callVars, metas, idx, prev, requests, npushes, nres,
               countVars, winVars, aggVars, appVars>>

\* cache_push(meta.clone()), second lock section, and the end of the loop body
TPushAppend(c) ==
  /\ tpc[c] = "append"
  /\ IF poisoned
     THEN /\ tpc' = [tpc EXCEPT ![c] = "panicked"]
          /\ cur' = [cur EXCEPT ![c].status = "panicked"]
          /\ UNCHANGED <<cache, idx, npushes>>
     ELSE /\ cache' = cache_push_append(cache, metas[c][idx[c]])
          /\ npushes' = npushes + 1
          /\ cur' = [cur EXCEPT ![c].pushed = TRUE, ![c].status = "done"]
          /\ Advance(c)
  /\ UNCHANGED <<poisoned, pushed, callVars, metas, prev, requests, nres,
               countVars, winVars, aggVars, appVars>>

NextTiles ==
  \/ GetTiles(1)
  \/ TSearch(1)
  \/ TRequest(1)
  \/ TResponse(1)
  \/ TPushRemove(1)
  \/ TPushAppend(1)

SpecTiles == InitTiles /\ [][NextTiles]_vars

\* ------------------------------- SpecCount: count_precipitation alone
Colours == Palette \cup OffPalette

\* where one run of pixels ends and the next begins: after the first pixel,
\* after the first column, in the middle of the tile, before the last pixel
CutPoints == {1, TILE_SIDE, NumPixels \div 2, NumPixels - 1}

MkGrid(cs, bs) ==
  [i \in 1..Len(cs) |->
     [rgba |-> cs[i],
      len |-> (IF i = Len(cs) THEN NumPixels ELSE bs[i])
              - (IF i = 1 THEN 0 ELSE bs[i - 1])]]

\* the decoded tiles explored: up to MaxRuns runs of any colour
GridInputs ==
  UNION {{MkGrid(cs, bs) :
            cs \in [1..k -> Colours],
            bs \in {b \in [1..(k - 1) -> CutPoints] :
                      \A i \in 1..(k - 2) : b[i] < b[i + 1]}} :
         k \in 1..MaxRuns}

InitCount ==
  /\ cache = CacheInit
  /\ poisoned = FALSE
  /\ pushed = <<>>
  /\ CallerIdle
  /\ AggIdle
  /\ TilesIdle
  /\ AppIdle
  /\ WindowIdle
  /\ grid \in GridInputs
  /\ cstate = "ready"
  /\ cresult = None

\* Tile::count_precipitation(&image)
CountPrecipitation ==
  /\ cstate = "ready"
  /\ LET r == count_precipitation(grid) IN
     /\ cresult' = r
     /\ cstate' = IF r.tag = "panic" THEN "panicked" ELSE "done"
  /\ UNCHANGED <<cacheVars, pushed, callVars, tileVars, grid, winVars, aggVars, appVars>>

NextCount == CountPrecipitation

SpecCount == InitCount /\ [][NextCount]_vars

\* ------------------- SpecWindow: precipitation_with_images, validation
\* PointOfDay::value
PointOfDay_value(p) ==
  CASE p = "Dawn" -> 6
    [] p = "Noon" -> 12
    [] p = "Dusk" -> 18

\* PointOfDay::datetime: the hour of datetime replaced, minutes and below zeroed
\* (instants are whole hours of local time, 24 to the day)
PointOfDay_datetime(p, datetime) == (datetime \div 24) * 24 + PointOfDay_value(p)

\* PartOfDay::begin
PartOfDay_begin(p) == IF p = "Morning" THEN "Dawn" ELSE "Noon"

\* PartOfDay::end
PartOfDay_end(p) == IF p = "Morning" THEN "Noon" ELSE "Dusk"

\* precipitation_with_images, line 362: if now > end
OutOfWindow(n, e) == n > e

\* mutant of OutOfWindowPc: the error is built but the function goes on
OutOfWindowPcFallsThrough == "catalog"

\* line 363: return Err(..) leaves the function
OutOfWindowPc == "returned"

\* mutant of effective_begin: begin is never advanced
effective_begin_kept(b, n) == b

\* lines 365-367: if now > begin { begin = now }
effective_begin(b, n) == IF n > b THEN n ELSE b

InitWindow ==
  /\ cache = CacheInit
  /\ poisoned = FALSE
  /\ pushed = <<>>
  /\ CallerIdle
  /\ AggIdle
  /\ TilesIdle
  /\ AppIdle
  /\ CountIdle
  /\ clock \in 0..23
  /\ debug \in BOOLEAN
  /\ wpc = "idle"
  /\ part = "Morning"
  /\ now_jst = 0
  /\ begin = 0
  /\ end = 0
  /\ now = 0
  /\ wres = None

\* time passes
Tick ==
  /\ clock < MaxClock
  /\ clock' = clock + 1
  /\ UNCHANGED <<cacheVars, pushed, callVars, tileVars, countVars, aggVars, appVars,
                 debug, wpc, part, now_jst, begin, end, now, wres>>

\* lines 357-359: Local::now() and the window of the part of day
WStart ==
  /\ wpc = "idle"
  /\ \E p \in {"Morning", "Afternoon"} :
       /\ part' = p
       /\ now_jst' = clock
       /\ begin' = PointOfDay_datetime(PartOfDay_begin(p), clock)
       /\ end' = PointOfDay_datetime(PartOfDay_end(p), clock)
  /\ wpc' = "validate"
  /\ UNCHANGED <<cacheVars, pushed, callVars, tileVars, countVars, aggVars, appVars,
                 clock, debug, now, wres>>

\* lines 361-370: Utc::now(), the out-of-window test, the advance of begin and
\* the two debug assertions (which panic in a build that has them)
WValidate ==
  /\ wpc = "validate"
  /\ now' = clock
  /\ IF OutOfWindow(clock, end)
     THEN /\ wres' = [tag |-> "Err", val |-> <<"Out of", part>>]
          /\ wpc' = OutOfWindowPc
          /\ UNCHANGED begin
     ELSE /\ begin' = effective_begin(begin, clock)
          /\ wpc' = IF debug /\ ~(begin' >= clock /\ end > clock)
                    THEN "panicked" ELSE "catalog"
          /\ UNCHANGED wres
  /\ UNCHANGED <<cacheVars, pushed, callVars, tileVars, countVars, aggVars, appVars,
                 clock, debug, part, now_jst, end>>

NextWindow == Tick \/ WStart \/ WValidate

SpecWindow == InitWindow /\ [][NextWindow]_vars

\* ------------------------- SpecCall: precipitation_with_images, whole
\* valid times (hours) of the catalog entries the service may return: around
\* the windows of day 0, and more than 365 days after them
CatalogTimes == {4, 8, 10, 18, 20, 8790, 8800}

\* the catalogs of at most n entries TileMeta::new() may give: any order,
\* repeats included
CatalogsUpTo(n) ==
  UNION {{[i \in 1..k |-> CatalogEntry(vt[i])] : vt \in [1..k -> CatalogTimes]} :
         k \in 0..n}

Catalogs == CatalogsUpTo(MaxCatalog)

\* what the catalog request comes back with: a transport error (unwrapped in
\* get_catalog) or one of the catalogs cats
CatalogResponses(cats) ==
  {[kind |-> "neterr"]} \cup {[kind |-> "json", catalog |-> c] : c \in cats}

\* TileMeta::validtime, as an instant in hours
validtime(m) == m.validtime

\* (validtime - begin).num_seconds().abs(), in hours
AbsDiff(a, b) == IF a >= b THEN a - b ELSE b - a

\* lines 373-382: the loop that looks for the entry nearest to begin; i and
\* now_index count from 0 as in the source
RECURSIVE anchor_loop(_, _, _, _, _)
anchor_loop(cat, b, i, nowIndex, durationMin) ==
  IF i >= Len(cat) THEN nowIndex
  ELSE LET diff == AbsDiff(validtime(cat[i + 1]), b) IN
       IF diff < durationMin
       THEN anchor_loop(cat, b, i + 1, i, diff)
       ELSE anchor_loop(cat, b, i + 1, nowIndex, durationMin)

\* lines 373-374: now_index = 0, duration_min = Duration::days(365)
anchor(cat, b) == anchor_loop(cat, b, 0, 0, DURATION_MIN_DAYS * 24)

\* lines 384-397: the condition of the anchor debug_assert; "panic" when
\* catalog[now_index] is out of range
anchor_assert(cat, nowIndex, b) ==
  IF nowIndex >= Len(cat) THEN "panic"
  ELSE LET previous == IF nowIndex = 0 THEN 0 ELSE nowIndex - 1
           next == IF nowIndex + 1 >= Len(cat) THEN nowIndex ELSE nowIndex + 1
           d == AbsDiff(validtime(cat[nowIndex + 1]), b)
       IN IF /\ d <= AbsDiff(validtime(cat[previous + 1]), b)
             /\ d <= AbsDiff(validtime(cat[next + 1]), b)
          THEN "ok" ELSE "fail"

\* mutant of candidates_loop: an entry after end is skipped and the scan goes on
RECURSIVE candidates_loop_skip(_, _, _, _)
candidates_loop_skip(cat, e, i, ms) ==
  IF i < 0 THEN Some(ms)
  ELSE IF i >= Len(cat) THEN [tag |-> "panic"]
  ELSE IF validtime(cat[i + 1]) > e THEN candidates_loop_skip(cat, e, i - 1, ms)
  ELSE candidates_loop_skip(cat, e, i - 1, Append(ms, cat[i + 1]))

\* lines 415-421: for i in (0..=now_index).rev(), break at the first entry
\* after end; "panic" when catalog[i] is out of range
RECURSIVE candidates_loop(_, _, _, _)
candidates_loop(cat, e, i, ms) ==
  IF i < 0 THEN Some(ms)
  ELSE IF i >= Len(cat) THEN [tag |-> "panic"]
  ELSE IF validtime(cat[i + 1]) > e THEN Some(ms)
  ELSE candidates_loop(cat, e, i - 1, Append(ms, cat[i + 1]))

\* mutant of get_tiles_loop: the metas are resolved from the last to the first
RECURSIVE get_tiles_loop_reversed(_, _, _)
get_tiles_loop_reversed(st, i, rs) ==
  IF i > Len(st.metas) THEN st
  ELSE LET n == Len(st.metas) - i + 1
           meta == st.metas[n]
           found == cache_search(st.cache, meta)
           m1 == get_tiles_lookup(meta, found)
       IN IF get_tiles_hit(found)
          THEN get_tiles_loop_reversed([st EXCEPT !.metas[n] = m1], i + 1, rs)
          ELSE LET tile == get_tile(rs[n])
                   m2 == IF tile.tag = "panic" THEN tile
                         ELSE get_tiles_fetched(m1, tile)
               IN IF m2.tag = "panic"
                  THEN [st EXCEPT !.metas[n] = m1, !.requests = @ + 1,
                                  !.panicked = TRUE]
                  ELSE get_tiles_loop_reversed(
                         [st EXCEPT !.metas[n] = m2.val,
                                    !.cache = cache_push(@, m2.val),
                                    !.requests = @ + 1,
                                    !.pushes = @ + 1],
                         i + 1, rs)

\* Tile::get_tiles run to its end by one caller with no other caller in
\* between; rs[i] is the reply the tile request of the i-th meta gets if it is
\* issued
RECURSIVE get_tiles_loop(_, _, _)
get_tiles_loop(st, i, rs) ==
  IF i > Len(st.metas) THEN st
  ELSE LET meta == st.metas[i]
           found == cache_search(st.cache, meta)
           m1 == get_tiles_lookup(meta, found)
       IN IF get_tiles_hit(found)
          THEN get_tiles_loop([st EXCEPT !.metas[i] = m1], i + 1, rs)
          ELSE LET tile == get_tile(rs[i])
                   m2 == IF tile.tag = "panic" THEN tile
                         ELSE get_tiles_fetched(m1, tile)
               IN IF m2.tag = "panic"
                  THEN [st EXCEPT !.metas[i] = m1, !.requests = @ + 1,
                                  !.panicked = TRUE]
                  ELSE get_tiles_loop(
                         [st EXCEPT !.metas[i] = m2.val,
                                    !.cache = cache_push(@, m2.val),
                                    !.requests = @ + 1,
                                    !.pushes = @ + 1],
                         i + 1, rs)

\* f32 comparison p < mp; every precipitation comes from count_precipitation,
\* so the denominators are equal
F32Less(p, mp) == p.num < mp.num

\* mutant of precipitation_max_step: the smaller value is kept
precipitation_max_step_min(acc, mp) ==
  IF acc.tag = "Ok"
  THEN (IF mp.tag = "Some"
        THEN (IF F32Less(mp.val, acc.val) THEN [tag |-> "Ok", val |-> mp.val] ELSE acc)
        ELSE acc)
  ELSE (IF mp.tag = "Some" THEN [tag |-> "Ok", val |-> mp.val] ELSE acc)

\* lines 424-439: one step of the fold that keeps the largest precipitation
precipitation_max_step(acc, mp) ==
  IF acc.tag = "Ok"
  THEN (IF mp.tag = "Some"
        THEN (IF F32Less(acc.val, mp.val) THEN [tag |-> "Ok", val |-> mp.val] ELSE acc)
        ELSE acc)
  ELSE (IF mp.tag = "Some" THEN [tag |-> "Ok", val |-> mp.val] ELSE acc)

RECURSIVE precipitation_max_loop(_, _, _)
precipitation_max_loop(ms, i, acc) ==
  IF i > Len(ms) THEN acc
  ELSE precipitation_max_loop(ms, i + 1,
                              precipitation_max_step(acc, ms[i].precipitation))

\* lines 440-445: validtime in local time, formatted "%H:%M"
format_HM(t) == <<t % 24, 0>>

\* mutant of result_images: only the candidates with a precipitation give an
\* image
result_images_some(ms) ==
  SelectSeq([i \in 1..Len(ms) |-> ms[i]],
            LAMBDA m : m.precipitation # None)

\* line 446: res.images.push(meta.image), one per meta
result_images(ms) == [i \in 1..Len(ms) |-> ms[i]]

\* lines 413-452: the value precipitation_with_images returns for the metas
\* get_tiles filled in
aggregate(ms) ==
  LET pmax == precipitation_max_loop(ms, 1, [tag |-> "Err", val |-> <<"">>])
      imgs == result_images(ms)
  IN IF pmax.tag = "Ok"
     THEN [tag |-> "Ok",
           val |-> [precipitation |-> pmax.val,
                    images |-> [i \in 1..Len(imgs) |-> imgs[i].image],
                    times |-> [i \in 1..Len(ms) |-> format_HM(validtime(ms[i]))]]]
     ELSE [tag |-> "Err", val |-> <<"No Precipitation data">>]

\* a cache an earlier call left behind: the slice of hour 10 fetched with rain
WarmCache ==
  cache_push(CacheInit,
             get_tiles_fetched(CatalogEntry(10), Some(RainTile)).val)

InitCall ==
  /\ cache \in {CacheInit, WarmCache}
  /\ wcache0 = cache
  /\ poisoned = FALSE
  /\ pushed = <<>>
  /\ CallerIdle
  /\ TilesIdle
  /\ AppIdle
  /\ CountIdle
  /\ clock \in 0..23
  /\ debug \in BOOLEAN
  /\ wpc = "idle"
  /\ part = "Morning"
  /\ now_jst = 0
  /\ begin = 0
  /\ end = 0
  /\ now = 0
  /\ wres = None
  /\ catalog = <<>>
  /\ now_index = 0
  /\ wmetas = <<>>
  /\ catreqs = 0

\* line 372: TileMeta::new().await, the catalog request and its reply, the
\* catalog being one of cats
CatalogRequest(cats) ==
  /\ wpc = "catalog"
  /\ catreqs' = catreqs + 1
  /\ \E r \in CatalogResponses(cats) :
       IF r.kind = "neterr"
       THEN /\ wpc' = "panicked"
            /\ UNCHANGED catalog
       ELSE /\ wpc' = "anchor"
            /\ catalog' = r.catalog
  /\ UNCHANGED <<cacheVars, pushed, callVars, tileVars, countVars,
                 clock, debug, part, now_jst, begin, end, now, wres,
                 now_index, wmetas, wcache0, appVars>>

WCatalog == CatalogRequest(Catalogs)

\* lines 373-421: the anchor, its debug assertion and the candidates
WAnchor ==
  /\ wpc = "anchor"
  /\ LET a == anchor(catalog, begin)
         ok == anchor_assert(catalog, a, begin)
         ms == candidates_loop(catalog, end, a, <<>>)
     IN /\ now_index' = a
        /\ IF (debug /\ ok # "ok") \/ ms.tag = "panic"
           THEN /\ wpc' = "panicked"
                /\ UNCHANGED wmetas
           ELSE /\ wpc' = "tiles"
                /\ wmetas' = ms.val
  /\ UNCHANGED <<cacheVars, pushed, callVars, tileVars, countVars, clock, debug, part, now_jst, begin, end, now, wres,
                 catalog, catreqs, wcache0, appVars>>

\* line 422: self.get_tiles(&mut metas).await
WGetTiles ==
  /\ wpc = "tiles"
  /\ \E rs \in [1..Len(wmetas) -> Responses] :
       LET st == get_tiles_loop([metas |-> wmetas, cache |-> cache,
                                 requests |-> requests, pushes |-> npushes,
                                 panicked |-> FALSE], 1, rs)
       IN /\ wmetas' = st.metas
          /\ cache' = st.cache
          /\ requests' = st.requests
          /\ npushes' = st.pushes
          /\ wpc' = IF st.panicked THEN "panicked" ELSE "aggregate"
  /\ UNCHANGED <<poisoned, pushed, callVars, tpc, metas, idx, cur, prev, nres,
                 countVars, clock, debug, part, now_jst, begin, end, now, wres, catalog, now_index, catreqs, wcache0, appVars>>

\* lines 423-452: the fold over the metas and the return
WAggregate ==
  /\ wpc = "aggregate"
  /\ wres' = aggregate(wmetas)
  /\ wpc' = "returned"
  /\ UNCHANGED <<cacheVars, pushed, callVars, tileVars, countVars,
                 clock, debug, part, now_jst, begin, end, now, aggVars, appVars>>

NextCall == WStart \/ WValidate \/ WCatalog \/ WAnchor \/ WGetTiles \/ WAggregate

SpecCall == InitCall /\ [][NextCall]_vars

\* ------------- SpecScan: the anchor and the candidates, longer catalogs
InitScan ==
  /\ cache = CacheInit
  /\ wcache0 = cache
  /\ poisoned = FALSE
  /\ pushed = <<>>
  /\ CallerIdle
  /\ TilesIdle
  /\ AppIdle
  /\ CountIdle
  /\ clock \in 0..23
  /\ debug \in BOOLEAN
  /\ wpc = "idle"
  /\ part = "Morning"
  /\ now_jst = 0
  /\ begin = 0
  /\ end = 0
  /\ now = 0
  /\ wres = None
  /\ catalog = <<>>
  /\ now_index = 0
  /\ wmetas = <<>>
  /\ catreqs = 0

WCatalogScan == CatalogRequest(CatalogsUpTo(MaxScan))

NextScan == WStart \/ WValidate \/ WCatalogScan \/ WAnchor

SpecScan == InitScan /\ [][NextScan]_vars

\* --------------------- SpecKey: cache_search on arbitrary entries and probes
\* TileMeta values that differ in every field: the three key strings, the
\* elements, and the payload (precipitation with its image)
KeyMetas ==
  {TileMeta(b, v, m, e, pl[1], pl[2]) :
     b \in {"base", "base2"}, v \in 1..2, m \in {"none", "m1"},
     e \in {<<"rasrf">>, <<"other">>},
     pl \in {<<None, <<>>>>, <<Some(Ratio(7, 65536)), RainTile>>}}

\* caches whose newest KeySlots slots are empty or hold any of KeyMetas
KeyCaches ==
  {[i \in 1..CACHE_SIZE |->
      IF i <= CACHE_SIZE - KeySlots THEN None ELSE f[i - (CACHE_SIZE - KeySlots)]] :
   f \in [1..KeySlots -> {None} \cup {Some(k) : k \in KeyMetas}]}

InitKey ==
  /\ cache \in KeyCaches
  /\ poisoned = FALSE
  /\ pushed = <<>>
  /\ cpc = [c \in Callers |-> "idle"]
  /\ \E probe \in KeyMetas : carg = [c \in Callers |-> IF c = 1 THEN Some(probe) ELSE None]
  /\ cfound = [c \in Callers |-> None]
  /\ cops = 0
  /\ AggIdle
  /\ TilesIdle
  /\ AppIdle
  /\ CountIdle
  /\ WindowIdle

\* cache_search(&probe) by caller 1
KeySearch ==
  /\ cpc[1] = "idle"
  /\ cfound' = [cfound EXCEPT ![1] = cache_search(cache, carg[1].val)]
  /\ cache' = cache_search_slots(cache, carg[1].val)
  /\ cpc' = [cpc EXCEPT ![1] = "searched"]
  /\ UNCHANGED <<poisoned, pushed, carg, cops, tileVars, countVars, winVars, aggVars, appVars>>

NextKey == KeySearch

SpecKey == InitKey /\ [][NextKey]_vars

\* ------------------------------------------- SpecGeo: Tile::from_latlon
\* The f64 arithmetic of from_latlon is modelled by enclosures: a real number
\* r in [0, 1] is a pair lo <= r * 2^30 <= hi of integers, and every operation
\* rounds lo down and hi up, so the real result (and the f64 one, which is
\* within 2^-50 of it) lies in the pair computed.  Angles are given in units
\* of 10^-7 degree.
ONE == 2^30
LIMB == 2^15
Enc(lo, hi) == [lo |-> lo, hi |-> hi]

\* floor(a * b / 2^30) or up to 2 less, for 0 <= a, b <= 2^30, without a
\* product above 2^31
MulDown(a, b) ==
  LET a1 == a \div LIMB
      a0 == a % LIMB
      b1 == b \div LIMB
      b0 == b % LIMB
  IN a1 * b1 + ((a1 * b0 + a0 * b1) \div LIMB)

EncMul(p, q) == Enc(MulDown(p.lo, q.lo), MulDown(p.hi, q.hi) + 2)

\* floor(r * 2^k / d) for 0 <= r < d <= 2^30, by long division
RECURSIVE LongDiv(_, _, _)
LongDiv(r, d, k) ==
  IF k = 0 THEN 0
  ELSE LET r2 == 2 * r IN
       IF r2 >= d THEN 2^(k - 1) + LongDiv(r2 - d, d, k - 1)
       ELSE LongDiv(r2, d, k - 1)

\* p / q for p < q
EncDiv(p, q) == Enc(LongDiv(p.lo, q.hi, 30), LongDiv(p.hi, q.lo, 30) + 1)

\* p / k for a small integer k
EncDivInt(p, k) == Enc(p.lo \div k, (p.hi \div k) + 1)

EncAdd(p, q) == Enc(p.lo + q.lo, p.hi + q.hi)
EncSub(p, q) == Enc(p.lo - q.hi, p.hi - q.lo)

\* std::f64::consts::PI / 4 and 1 / PI
PI_4_LO == 843314856
PI_4_HI == 843314857
INV_PI_LO == 341782637
INV_PI_HI == 341782638

\* 360 degrees / 4, in units of 10^-7 degree
QUARTER_TURN == 900000000

\* sin h for 0 <= h <= pi/4: h - h^3/3! + ... + h^9/9!, the next term bounding
\* the rest
sin_enc(h) ==
  LET h2 == EncMul(h, h)
      t1 == EncDivInt(EncMul(h, h2), 6)
      t2 == EncDivInt(EncMul(t1, h2), 20)
      t3 == EncDivInt(EncMul(t2, h2), 42)
      t4 == EncDivInt(EncMul(t3, h2), 72)
      t5 == EncDivInt(EncMul(t4, h2), 110)
      sum == EncAdd(EncSub(EncAdd(EncSub(h, t1), t2), t3), t4)
  IN Enc(sum.lo - t5.hi, sum.hi)

\* cos h for 0 < h <= pi/4: 1 - h^2/2! + ... - h^10/10!
cos_enc(h) ==
  LET h2 == EncMul(h, h)
      c1 == EncDivInt(h2, 2)
      c2 == EncDivInt(EncMul(c1, h2), 12)
      c3 == EncDivInt(EncMul(c2, h2), 30)
      c4 == EncDivInt(EncMul(c3, h2), 56)
      c5 == EncDivInt(EncMul(c4, h2), 90)
      c6 == EncDivInt(EncMul(c5, h2), 132)
      sum == EncSub(EncAdd(EncSub(EncAdd(EncSub(Enc(ONE, ONE), c1), c2), c3), c4), c5)
  IN Enc(sum.lo, sum.hi + c6.hi)

\* atanh t = t + t^3/3 + t^5/5 + ... for t^2 <= 1/2: the terms up to t^(2k+1)
\* from power p = t^(2j+1) on, and the first power left out as the bound of
\* the rest
RECURSIVE atanh_terms(_, _, _, _)
atanh_terms(p, t2, j, k) ==
  IF j > k THEN Enc(0, p.hi)
  ELSE EncAdd(EncDivInt(p, 2 * j + 1), atanh_terms(EncMul(p, t2), t2, j + 1, k))

atanh_enc(t) == atanh_terms(t, EncMul(t, t), 0, 12)

\* mutant of from_latlon_x: the product is rounded to the nearest integer
from_latlon_x_rounded(zoom, lon) ==
  2^(zoom - 1) + (lon \div QUARTER_TURN) * 2^(zoom - 2)
               + ((LongDiv(lon % QUARTER_TURN, QUARTER_TURN, zoom - 1) + 1) \div 2)

\* line 239: let x = ((lon + 180.0) / 360.0 * n) as usize, for lon >= 0:
\* n/2 + floor(lon * (n/4) / 90), exact
from_latlon_x(zoom, lon) ==
  2^(zoom - 1) + (lon \div QUARTER_TURN) * 2^(zoom - 2)
               + LongDiv(lon % QUARTER_TURN, QUARTER_TURN, zoom - 2)

\* lines 240-241: (1.0 - lat_rad.tan().asinh() / PI) / 2.0, enclosed, for
\* 0 < lat < 90 degrees: asinh(tan(lat_rad)) = 2 atanh(tan(lat_rad / 2))
from_latlon_yfrac(lat) ==
  LET u == LongDiv(lat, QUARTER_TURN, 30)
      h == EncMul(Enc(u, u + 1), Enc(PI_4_LO, PI_4_HI))
      t == EncDiv(sin_enc(h), cos_enc(h))
      w == EncMul(atanh_enc(t), Enc(INV_PI_LO, INV_PI_HI))
  IN EncSub(Enc(ONE \div 2, ONE \div 2), w)

\* line 241: the values `(.. * n) as usize` can take for y
from_latlon_y(zoom, lat) ==
  LET f == from_latlon_yfrac(lat) IN
  (f.lo \div 2^(30 - zoom)) .. (f.hi \div 2^(30 - zoom))

\* the Tiles from_latlon(zoom, lat, lon) can return
from_latlon(zoom, lat, lon) ==
  {[zoom |-> zoom, x |-> from_latlon_x(zoom, lon), y |-> y] :
     y \in from_latlon_y(zoom, lat)}

\* latitudes and longitudes of tile_test, of the example in the
\* documentation of Tile and of mood.rs, in units of 10^-7 degree
GeoLats == {356812400, 430686663, 243904605, 268658607, 356851750}
GeoLons == {1397527660, 1413507557, 1242460321, 1282530679, 1937528000}

InitGeo ==
  /\ cache = CacheInit
  /\ poisoned = FALSE
  /\ pushed = <<>>
  /\ CallerIdle
  /\ AggIdle
  /\ TilesIdle
  /\ CountIdle
  /\ WindowIdle
  /\ tile_in \in {Some([zoom |-> z, lat |-> la, lon |-> lo]) :
                    z \in FORECAST_ZOOM..MaxZoom, la \in GeoLats, lo \in GeoLons}
  /\ tile_out = None
  /\ places = None
  /\ query = None
  /\ mood = None
  /\ picked = None
  /\ moods = <<>>
  /\ recent = None
  /\ rlast = None
  /\ mpc = "idle"

\* Tile::from_latlon(zoom, lat, lon)
FromLatLon ==
  /\ tile_out = None
  /\ \E t \in from_latlon(tile_in.val.zoom, tile_in.val.lat, tile_in.val.lon) :
       tile_out' = Some(t)
  /\ UNCHANGED <<cacheVars, pushed, callVars, tileVars, countVars, winVars, aggVars,
                 tile_in, places, query, mood, picked, moods, recent, rlast, mpc>>

NextGeo == FromLatLon

SpecGeo == InitGeo /\ [][NextGeo]_vars

\* ------------------------------------------- SpecPick: Places::pickup
\* struct Place { name, shop, walking, parking }
Place(n, sh, w, pk) == [name |-> n, shop |-> sh, walking |-> w, parking |-> pk]

\* struct Shop { name, food }
Shop(n, f) == [name |-> n, food |-> f]

\* struct Mood, the three criteria pickup reads
Mood(f, w, pk) == [food |-> f, walking |-> w, parking |-> pk]

OptionBool == {None, Some(TRUE), Some(FALSE)}

\* mutant of pickup_food: every shop listed has to be in the table with the flag
pickup_food_all(db, p, f) ==
  IF f.tag = "Some"
  THEN \A i \in 1..Len(p.shop) :
         \E j \in 1..Len(db.shop) :
           db.shop[j].name = p.shop[i] /\ db.shop[j].food = f.val
  ELSE TRUE

\* lines 53-65: the food criterion
pickup_food(db, p, f) ==
  IF f.tag = "Some"
  THEN \E i \in 1..Len(p.shop) :
         \E j \in 1..Len(db.shop) :
           db.shop[j].name = p.shop[i] /\ db.shop[j].food = f.val
  ELSE TRUE

\* lines 66-73: the walking and the parking criterion
pickup_flag(flag, b) == IF b.tag = "Some" THEN flag = b.val ELSE TRUE

\* lines 52-78: the loop over self.parking, from place i on
RECURSIVE pickup_loop(_, _, _, _)
pickup_loop(db, m, i, out) ==
  IF i > Len(db.parking) THEN out
  ELSE LET p == db.parking[i]
           food == pickup_food(db, p, m.food)
           walking == pickup_flag(p.walking, m.walking)
           parking == pickup_flag(p.parking, m.parking)
       IN pickup_loop(db, m, i + 1,
                      IF food /\ walking /\ parking THEN Append(out, p) ELSE out)

\* Places::pickup
pickup(db, m) == pickup_loop(db, m, 1, <<>>)

\* shop tables: empty, two shops, and one name listed twice with both flags
ShopTables ==
  {<<>>,
   <<Shop("s1", TRUE), Shop("s2", FALSE)>>,
   <<Shop("s1", TRUE), Shop("s1", FALSE)>>}

\* the shops a place lists; "s3" is in no table
ShopLists == {<<>>, <<"s1">>, <<"s2">>, <<"s1", "s2">>, <<"s3">>}

\* databases of at most n places, the i-th named i
PlacesUpTo(n) ==
  UNION {{[area_code |-> None,
           parking |-> [i \in 1..k |-> Place(i, d[i][1], d[i][2], d[i][3])],
           shop |-> t] :
            d \in [1..k -> ShopLists \X BOOLEAN \X BOOLEAN], t \in ShopTables} :
         k \in 0..n}

InitPick ==
  /\ cache = CacheInit
  /\ poisoned = FALSE
  /\ pushed = <<>>
  /\ CallerIdle
  /\ AggIdle
  /\ TilesIdle
  /\ CountIdle
  /\ WindowIdle
  /\ tile_in = None
  /\ tile_out = None
  /\ places \in {Some(db) : db \in PlacesUpTo(MaxPlaces)}
  /\ query = None
  /\ mood \in {Some(Mood(f, w, pk)) : f \in OptionBool, w \in OptionBool, pk \in OptionBool}
  /\ picked = None
  /\ moods = <<>>
  /\ recent = None
  /\ rlast = None
  /\ mpc = "mood"

\* places.pickup(&mood)
Pickup ==
  /\ mpc = "mood"
  /\ picked' = Some(pickup(places.val, mood.val))
  /\ mpc' = "picked"
  /\ UNCHANGED <<cacheVars, pushed, callVars, tileVars, countVars, winVars, aggVars,
                 tile_in, tile_out, places, query, mood, moods, recent, rlast>>

NextPick == Pickup

SpecPick == InitPick /\ [][NextPick]_vars

\* --------------------- SpecRace: get_tiles run by all callers at once
\* replies in SpecRace: a transport error, a body that does not decode, rain
RaceResponses ==
  {[kind |-> "neterr"], [kind |-> "undecodable"],
   [kind |-> "png", image |-> RainTile]}

RGetTiles(c) == GetTilesOf(c, MetasInputs, MaxRaceResolutions)

RResponse(c) == TResponseOf(c, RaceResponses)

NextRace ==
  \E c \in Callers :
    \/ RGetTiles(c)
    \/ TSearch(c)
    \/ TRequest(c)
    \/ RResponse(c)
    \/ TPushRemove(c)
    \/ TPushAppend(c)

SpecRace == InitTiles /\ [][NextRace]_vars

\* ------------------------- SpecPush: cache_push calls all in flight at once
Pushers == 1..NumPushers

\* a cache twelve earlier pushes have filled
CacheFull == [i \in 1..CACHE_SIZE |->
                Some(TileMeta("base", 100 + i, "none", <<"rasrf">>, None, <<>>))]

\* the cache before the concurrent pushes: as constructed, or filled
PushCaches == {CacheInit, CacheFull}

\* pushes between their two lock sections
InFlight(pc) == Cardinality({c \in DOMAIN pc : pc[c] = "removed"})

InitPush ==
  /\ cache \in PushCaches
  /\ poisoned = FALSE
  /\ pushed = <<>>
  /\ cpc = [c \in Pushers |-> "idle"]
  /\ carg = [c \in Pushers |-> None]
  /\ cfound = [c \in Pushers |-> None]
  /\ cops = 0
  /\ AggIdle
  /\ TilesIdle
  /\ AppIdle
  /\ CountIdle
  /\ WindowIdle

\* cache_push of caller c, first lock section; cops keeps the largest number
\* of pushes that were between their lock sections together
ConcRemove(c) ==
  /\ cpc[c] = "idle"
  /\ ~poisoned
  /\ \E p \in PrecChoices :
       LET meta == TileMeta("base", c, "none", <<"rasrf">>, p, <<>>) IN
       IF cache = <<>>
       THEN /\ poisoned' = TRUE
            /\ cpc' = [cpc EXCEPT ![c] = "panicked"]
            /\ UNCHANGED <<cache, carg>>
       ELSE /\ cache' = cache_push_remove(cache)
            /\ cpc' = [cpc EXCEPT ![c] = "removed"]
            /\ carg' = [carg EXCEPT ![c] = Some(meta)]
            /\ UNCHANGED poisoned
  /\ cops' = IF InFlight(cpc') > cops THEN InFlight(cpc') ELSE cops
  /\ UNCHANGED <<pushed, cfound, tileVars, countVars, winVars, aggVars, appVars>>

\* cache_push of caller c, second lock section; pushed keeps the order of
\* the appends
ConcAppend(c) ==
  /\ cpc[c] = "removed"
  /\ ~poisoned
  /\ cache' = cache_push_append(cache, carg[c].val)
  /\ pushed' = Append(pushed, carg[c].val)
  /\ cpc' = [cpc EXCEPT ![c] = "done"]
  /\ carg' = [carg EXCEPT ![c] = None]
  /\ UNCHANGED <<poisoned, cfound, cops, tileVars, countVars, winVars, aggVars, appVars>>

NextPush == \E c \in Pushers : ConcRemove(c) \/ ConcAppend(c)

SpecPush == InitPush /\ [][NextPush]_vars

\* -------------- SpecMood: the place suggestion of the two front ends
\* utils.rs: const ALL_DAY
ALL_DAY == <<"Morning", "Afternoon">>

\* area_code.pops.unwrap_or(10) of check_probability
DEFAULT_POPS == 10

\* struct Mood with all its fields
MoodOf(f, w, pk, pod, fc) ==
  [food |-> f, walking |-> w, parking |-> pk, part_of_day |-> pod, forecast |-> fc]

\* a flag pair of the Cli (-w / -W), as get_mood reads it: the second
\* assignment wins
get_mood_flag(yes, no) ==
  IF no THEN Some(FALSE) ELSE IF yes THEN Some(TRUE) ELSE None

\* console: get_mood
get_mood(cli) ==
  MoodOf(get_mood_flag(cli.food, cli.no_food),
         get_mood_flag(cli.walking, cli.no_walking),
         get_mood_flag(cli.parking, cli.no_parking),
         None, None)

\* web: impl From<GetMood> for Mood
mood_from(q) == MoodOf(q.food, q.walking, q.parking, None, None)

\* Mood::set_part_of_day
set_part_of_day(m, pod) == [m EXCEPT !.part_of_day = Some(pod)]

\* Mood::check_precipitation, given what precipitation_with_images returned:
\* walking is assigned whatever it held
check_precipitation(m, area_code, r) ==
  IF m.part_of_day = None THEN m
  ELSE IF r.tag = "Ok"
       THEN [m EXCEPT !.forecast = Some(r.val),
                      !.walking = IF r.val > area_code.precipitation
                                  THEN Some(FALSE) ELSE Some(TRUE)]
       ELSE [m EXCEPT !.walking = None]

\* Mood::check_probability, given the probability the forecast holds for
\* the part of the day
check_probability(m, area_code, pop) ==
  IF m.part_of_day = None THEN m
  ELSE IF pop.tag = "Some"
       THEN LET limit == IF area_code.pops.tag = "Some"
                         THEN area_code.pops.val ELSE DEFAULT_POPS
            IN [m EXCEPT !.walking = IF pop.val > limit
                                     THEN Some(FALSE) ELSE Some(TRUE)]
       ELSE [m EXCEPT !.walking = None]

\* what precipitation_with_images returns to check_precipitation
ForecastResults ==
  {[tag |-> "Err"]} \cup {[tag |-> "Ok", val |-> v] : v \in {0, MaxForecast}}

\* what Forecast::update leaves in forecast.morning / forecast.afternoon
ForecastPops == {None, Some(0), Some(DEFAULT_POPS + MaxForecast)}

\* the area of the Places database: precipitation limit below the rain the
\* forecasts report, no pops limit
MoodArea == [precipitation |-> MaxForecast - 1, pops |-> None]

\* Places databases of the suggestion: a place to walk and one not to walk,
\* with and without area_code
MoodPlaces ==
  {[area_code |-> a,
    parking |-> <<Place(1, <<>>, TRUE, TRUE), Place(2, <<>>, FALSE, FALSE)>>,
    shop |-> <<>>] : a \in {None, Some(MoodArea)}}

\* the command lines clap accepts: at most one flag of each group
CliFlags == {<<FALSE, FALSE>>, <<TRUE, FALSE>>, <<FALSE, TRUE>>}

\* what the user asked, by the console (struct Cli) or the web (struct GetMood)
Queries ==
  {[front |-> "console", food |-> FALSE, no_food |-> FALSE,
    walking |-> w[1], no_walking |-> w[2],
    parking |-> pk[1], no_parking |-> pk[2],
    use_probability |-> up] :
      w \in CliFlags, pk \in CliFlags, up \in BOOLEAN}
  \cup
  {[front |-> "web", food |-> None, parking |-> pk, walking |-> w, weather |-> we] :
      pk \in OptionBool, w \in OptionBool, we \in OptionBool}

InitMood ==
  /\ cache = CacheInit
  /\ poisoned = FALSE
  /\ pushed = <<>>
  /\ CallerIdle
  /\ AggIdle
  /\ TilesIdle
  /\ CountIdle
  /\ WindowIdle
  /\ tile_in = None
  /\ tile_out = None
  /\ places \in {Some(db) : db \in MoodPlaces}
  /\ query \in {Some(q) : q \in Queries}
  /\ mood = None
  /\ picked = None
  /\ moods = <<>>
  /\ recent = None
  /\ rlast = None
  /\ mpc = "request"

MoodFrame ==
  UNCHANGED <<cacheVars, pushed, callVars, tileVars, countVars, winVars, aggVars,
              tile_in, tile_out, places, query, recent, rlast>>

\* place_handler, lines 52-54: the mood of the next part of the day is built
\* from the query
HPart ==
  /\ query.val.front = "web"
  /\ mpc \in {"request", "next"}
  /\ LET pod == IF mpc = "request" THEN ALL_DAY[1] ELSE ALL_DAY[2]
     IN mood' = Some(set_part_of_day(mood_from(query.val), pod))
  /\ mpc' = "check"
  /\ UNCHANGED <<picked, moods>>
  /\ MoodFrame

\* place_handler, lines 56-68: the weather check, unless weather=false or the
\* database has no area_code
HCheck ==
  /\ query.val.front = "web"
  /\ mpc = "check"
  /\ IF Some(FALSE) # query.val.weather /\ places.val.area_code # None
     THEN \E r \in ForecastResults :
            mood' = Some(check_precipitation(mood.val, places.val.area_code.val, r))
     ELSE UNCHANGED mood
  /\ mpc' = "pickup"
  /\ UNCHANGED <<picked, moods>>
  /\ MoodFrame

\* place_handler, line 71: places.pickup(&mood); picked keeps the call
HPickup ==
  /\ query.val.front = "web"
  /\ mpc = "pickup"
  /\ picked' = Some([mood |-> mood.val, places |-> pickup(places.val, mood.val)])
  /\ mpc' = IF mood.val.part_of_day = Some(ALL_DAY[1]) THEN "next" ELSE "done"
  /\ UNCHANGED <<mood, moods>>
  /\ MoodFrame

\* today_place, lines 110-116 and 139-147: get_mood, and the branch on the
\* walking option and the area_code
TMood ==
  /\ query.val.front = "console"
  /\ mpc = "request"
  /\ LET mood_now == get_mood(query.val)
     IN /\ mood' = Some(mood_now)
        /\ IF mood_now.walking = None /\ places.val.area_code # None
           THEN /\ moods' = <<>>
                /\ mpc' = "forecast"
           ELSE /\ moods' = <<mood_now>>
                /\ mpc' = "pickups"
  /\ UNCHANGED picked
  /\ MoodFrame

\* today_place, lines 121-138: one round of the loop over ALL_DAY
TCheck ==
  /\ query.val.front = "console"
  /\ mpc = "forecast"
  /\ LET pod == ALL_DAY[Len(moods) + 1]
         m == [mood.val EXCEPT !.part_of_day = Some(pod)]
         area_code == places.val.area_code.val
     IN IF query.val.use_probability
        THEN \E pop \in ForecastPops :
               moods' = Append(moods, check_probability(m, area_code, pop))
        ELSE \E r \in ForecastResults :
               moods' = Append(moods, check_precipitation(m, area_code, r))
  /\ mpc' = IF Len(moods) + 1 = Len(ALL_DAY) THEN "pickups" ELSE "forecast"
  /\ UNCHANGED <<mood, picked>>
  /\ MoodFrame

\* today_place, lines 150-151: places.pickup(&m) for the next m of moods
TPickup ==
  /\ query.val.front = "console"
  /\ mpc = "pickups"
  /\ moods # <<>>
  /\ picked' = Some([mood |-> Head(moods), places |-> pickup(places.val, Head(moods))])
  /\ moods' = Tail(moods)
  /\ mpc' = IF Tail(moods) = <<>> THEN "done" ELSE "pickups"
  /\ UNCHANGED mood
  /\ MoodFrame

NextMood == HPart \/ HCheck \/ HPickup \/ TMood \/ TCheck \/ TPickup

SpecMood == InitMood /\ [][NextMood]_vars

\* ------------------------- SpecRecent: the history of suggested places
\* const DEFAULT_ROTATION_DAYS: usize = 7
DEFAULT_ROTATION_DAYS == 7

\* struct RecentPlace; rotation_days is Some after new() and after read()
RecentPlace(d, m, a) == [rotation_days |-> d, morning |-> m, afternoon |-> a]

\* names of places
PlaceNames == {"p1", "p2"}

\* the list of a part of the day
RecentPlace_list(r, pod) == IF pod = "Morning" THEN r.morning ELSE r.afternoon

\* RecentPlace::check: p.iter().any(|x| x == place)
RecentPlace_check(r, place, pod) ==
  \E i \in 1..Len(RecentPlace_list(r, pod)) : RecentPlace_list(r, pod)[i] = place

\* lines 172-179: p.push(place), then p.remove(0) if p.len() >= d
today_place_list(p, place, d) ==
  LET pushed1 == Append(p, place) IN
  IF d.tag = "Some" /\ Len(pushed1) >= d.val THEN Tail(pushed1) ELSE pushed1

\* RecentPlace::today_place
RecentPlace_today_place(r, place, pod) ==
  IF pod = "Morning"
  THEN [r EXCEPT !.morning = today_place_list(r.morning, place, r.rotation_days)]
  ELSE [r EXCEPT !.afternoon = today_place_list(r.afternoon, place, r.rotation_days)]

\* lists of at most n names
NameLists(n) == UNION {[1..k -> PlaceNames] : k \in 0..n}

\* RecentPlace::new() and RecentPlace::read(): no file, or a file with any
\* rotation_days (the default when the file has none) and any two lists
RecentInputs ==
  {RecentPlace(Some(d), m, a) :
     d \in (0..MaxRotation) \cup {DEFAULT_ROTATION_DAYS},
     m \in NameLists(MaxHistory), a \in NameLists(MaxHistory)}

InitRecent ==
  /\ cache = CacheInit
  /\ poisoned = FALSE
  /\ pushed = <<>>
  /\ CallerIdle
  /\ AggIdle
  /\ TilesIdle
  /\ CountIdle
  /\ WindowIdle
  /\ tile_in = None
  /\ tile_out = None
  /\ places = None
  /\ query = None
  /\ mood = None
  /\ picked = None
  /\ moods = <<>>
  /\ recent \in {Some(r) : r \in RecentInputs}
  /\ rlast = None
  /\ mpc = "recent"

RecentFrame ==
  UNCHANGED <<cacheVars, pushed, callVars, tileVars, countVars, winVars, aggVars,
              tile_in, tile_out, places, query, mood, picked, moods, mpc>>

\* recent.check(&p.name, part)
RCheck ==
  /\ mpc = "recent"
  /\ \E place \in PlaceNames, pod \in {"Morning", "Afternoon"} :
       rlast' = Some([op |-> "check", place |-> place, pod |-> pod,
                      result |-> RecentPlace_check(recent.val, place, pod),
                      before |-> recent.val])
  /\ UNCHANGED recent
  /\ RecentFrame

\* recent.today_place(&p, part), while the list is within MaxHistory
RTodayPlace ==
  /\ mpc = "recent"
  /\ \E place \in PlaceNames, pod \in {"Morning", "Afternoon"} :
       /\ Len(RecentPlace_list(recent.val, pod)) <= MaxHistory
       /\ recent' = Some(RecentPlace_today_place(recent.val, place, pod))
       /\ rlast' = Some([op |-> "today_place", place |-> place, pod |-> pod,
                         result |-> TRUE, before |-> recent.val])
  /\ RecentFrame

NextRecent == RCheck \/ RTodayPlace

SpecRecent == InitRecent /\ [][NextRecent]_vars

Spec == SpecCache

\* ------------------------------------------------------------------ C1
\* C1: strict FIFO. From the empty cache, after n >= 12 sequential pushes with
\* distinct keys the cache holds exactly the last 12 pushed entries in push
\* order; after 13 pushes a lookup of the 1st pushed key fails and the slots
\* are the entries of pushes 2 to 13.
C1_FifoOrder ==
  LET n == Len(pushed) IN
  /\ n >= CACHE_SIZE =>
       /\ Len(cache) = CACHE_SIZE
       /\ \A i \in 1..CACHE_SIZE : cache[i] = Some(pushed[n - CACHE_SIZE + i])
  /\ n = CACHE_SIZE + 1 =>
       /\ cache_search(cache, pushed[1]).tag = "Err"
       /\ \A i \in 1..CACHE_SIZE : cache[i] = Some(pushed[i + 1])
       /\ \A i \in 2..n : cache_search(cache, pushed[i]) = [tag |-> "Ok", val |-> pushed[i]]

C1_Witness ==
  /\ Len(pushed) = CACHE_SIZE + 1
  /\ cache[1] = Some(pushed[2])
  /\ cache[CACHE_SIZE] = Some(pushed[CACHE_SIZE + 1])

\* ------------------------------------------------------------------ C2
\* C2: in every reachable state, under every interleaving of the lock sections
\* of cache_push and cache_search run by the callers, the cache holds at most
\* CACHE_SIZE slots.
C2_AtMostCacheSize == Len(cache) <= CACHE_SIZE

C2_Witness ==
  /\ \E c1, c2 \in Callers : c1 # c2 /\ cpc[c1] = "removed" /\ cpc[c2] = "removed"
  /\ Len(cache) = CACHE_SIZE - 2
  /\ \E i \in 1..Len(cache) : cache[i].tag = "Some"

\* ------------------------------------------------------------------ C3
\* the resolution caller 1 is in, or completed last
Res == cur[1]

Completed(r) == r.status \in {"hit", "done"}

\* C3: when the same key is resolved twice in succession by get_tiles and the
\* first resolution produced a precipitation that is not None, the second one
\* issues no tile request, pushes nothing and returns the precipitation and
\* the thumbnail of the first.
C3_SecondResolutionHits ==
  (/\ Res.status # "none"
   /\ Completed(prev)
   /\ TileMetaEq(Res.meta, prev.meta)
   /\ prev.meta.precipitation # None)
  => /\ ~Res.req
     /\ ~Res.pushed
     /\ Res.status = "hit"
     /\ Res.meta.precipitation = prev.meta.precipitation
     /\ Res.meta.image = prev.meta.image

\* ------------------------------------------------------------------ C4
\* C4: whenever the cache holds an entry with the candidate's key whose
\* precipitation is not None, resolving the candidate is a cache hit: no tile
\* request is issued and the cache is left unchanged, whatever else the cache
\* holds (an older failed entry with the same key included).
C4_OkEntryMeansHit ==
  (Res.status # "none" /\ Res.hadOk)
  => /\ ~Res.req
     /\ Res.status = "hit"
     /\ cache = Res.cache0

\* ------------------------------------------------------------------ C5
\* C5: a candidate whose cached entry (the one cache_search returns) has
\* precipitation None is fetched again, and the result get_tiles obtains from
\* that fetch is pushed as one more entry with the same key: the push drops
\* the oldest slot only, so the cache can hold entries with equal keys.
C5_FailedEntryRefetched ==
  (Res.status # "none" /\ Res.found = "OkNone")
  => /\ Res.status # "hit"
     /\ Res.status \in {"await", "push", "done", "panicked"} => Res.req
     /\ Res.status = "done" =>
          /\ Res.pushed
          /\ cache = Append(Tail(Res.cache0), Some(Res.meta))

C5_Witness ==
  /\ Res.status = "done"
  /\ Res.found = "OkNone"
  /\ \E i, j \in 1..Len(cache) :
       /\ i < j
       /\ cache[i].tag = "Some" /\ cache[j].tag = "Some"
       /\ TileMetaEq(cache[i].val, cache[j].val)
       /\ cache[i].val.precipitation = None
       /\ cache[j].val = Res.meta

\* ------------------------------------------------------------------ C6
\* C6: every tile fetch attempt of get_tiles is followed by exactly one cache
\* push of the resulting entry, whether the fetch succeeded or failed, and a
\* cache hit causes no push: whenever the caller is outside a resolution the
\* number of pushes equals the number of fetch attempts.
C6_PushPerFetch ==
  /\ tpc[1] \in {"idle", "search", "panicked"} => npushes = requests
  /\ (Res.status = "hit") => ~Res.pushed /\ ~Res.req

\* ------------------------------------------------------------------ C7
\* C7: a network failure, a non-2xx response or an image-decode failure while
\* fetching one candidate's tile sets that candidate's precipitation to None
\* and its thumbnail to empty, and get_tiles goes on (the caller does not
\* panic).
FetchFailed(r) ==
  /\ r.status # "none"
  /\ r.resp # None
  /\ r.resp.val.kind \in {"neterr", "non2xx", "undecodable"}

C7_FetchFailureIsPerSlice ==
  FetchFailed(Res)
  => /\ Res.status # "panicked"
     /\ Res.meta.precipitation = None
     /\ Res.meta.image = <<>>

\* ------------------------------------------------------------------ C8
\* C8: a decoded tile with a pixel outside the palette makes only that slice
\* fail: its precipitation is None, the entry is pushed to the cache and
\* get_tiles goes on instead of aborting.
HasOffPalette(image) == \E i \in 1..Len(image) : image[i].rgba \notin Palette

C8_OffPaletteIsPerSlice ==
  (/\ Res.status # "none"
   /\ Res.resp # None
   /\ Res.resp.val.kind = "png"
   /\ HasOffPalette(Res.resp.val.image))
  => /\ Res.status # "panicked"
     /\ Res.meta.precipitation = None
     /\ Res.status = "done" => Res.pushed

\* ------------------------------------------------------------------ C9
\* the weights the claim lists, by band: clear, then eight bands up to violet
ClaimWeights == <<0, 1, 5, 10, 20, 30, 50, 80, 100>>

\* pixels of the tile whose colour belongs to band b
RECURSIVE PixelsOfBand(_, _, _)
PixelsOfBand(image, i, b) ==
  IF i > Len(image) THEN 0
  ELSE (IF Intensity(image[i].rgba)[1] = b THEN image[i].len ELSE 0)
       + PixelsOfBand(image, i + 1, b)

RECURSIVE WeightedPixels(_, _)
WeightedPixels(image, b) ==
  IF b > 8 THEN 0
  ELSE ClaimWeights[b + 1] * PixelsOfBand(image, 1, b) + WeightedPixels(image, b + 1)

PaletteOnly(image) == \A i \in 1..Len(image) : image[i].rgba \in Palette

\* C9: for every pixel grid made only of palette colours count_precipitation
\* returns the sum of the per-pixel weights (0, 1, 5, 10, 20, 30, 50, 80, 100)
\* divided by 256 * 256; an all-transparent grid gives 0, an all-violet grid
\* gives 100, and every result lies between 0 and 100.
C9_MeanWeight ==
  (cstate \in {"done", "panicked"} /\ PaletteOnly(grid))
  => /\ cstate = "done"
     /\ cresult = Some(Ratio(WeightedPixels(grid, 0), 256 * 256))
     /\ 0 <= cresult.val.num /\ cresult.val.num <= 100 * cresult.val.den
     /\ (\A i \in 1..Len(grid) : grid[i].rgba \in {Clear, ClearWhite})
          => cresult.val.num = 0
     /\ (\A i \in 1..Len(grid) : grid[i].rgba = Violet)
          => cresult.val.num = 100 * cresult.val.den

C9_Witness ==
  /\ cstate = "done"
  /\ Len(grid) = 2
  /\ grid[1].rgba = Yellow
  /\ grid[2].rgba = Violet
  /\ cresult.val.num = 30 * grid[1].len + 100 * grid[2].len

\* ----------------------------------------------------------------- C10
\* C10: precipitation_with_images returns the out-of-window error whenever
\* the current instant is at or past the window's end (now >= end, the
\* boundary now = end included) and returns no such error when now < end.
C10_OutOfWindowAtOrPastEnd ==
  wpc \in {"returned", "catalog", "panicked"}
  => ((wres.tag = "Err" /\ wres.val[1] = "Out of") <=> now >= end)

\* the call ended with the out-of-window error
OutOfWindowError == wres.tag = "Err" /\ wres.val[1] = "Out of"

\* the call got past the window test
PastWindowTest ==
  \/ wpc \in {"catalog", "anchor", "tiles", "aggregate"}
  \/ wpc = "returned" /\ ~OutOfWindowError

\* the anchor and the candidates of the call have been computed
AnchorChosen == wpc \in {"tiles", "aggregate"} \/ (wpc = "returned" /\ ~OutOfWindowError)

\* ----------------------------------------------------------------- C11
\* C11: when precipitation_with_images fails with the out-of-window error, no
\* catalog request and no tile request has been issued in that call and the
\* tile cache is as it was when the call began.
C11_NoNetworkBeforeWindowError ==
  OutOfWindowError
  => /\ catreqs = 0
     /\ requests = 0
     /\ npushes = 0
     /\ cache = wcache0

C11_Witness ==
  /\ OutOfWindowError
  /\ wpc = "returned"
  /\ cache = WarmCache

\* ----------------------------------------------------------------- C12
\* the window's begin as computed from the part of day, before any advance
WindowBegin == PointOfDay_datetime(PartOfDay_begin(part), now_jst)

\* C12: once the window test has passed, the begin used for matching is
\* max(window begin, now): the current instant when it is after the window's
\* begin, the window's begin otherwise; and the anchor index is the one the
\* anchor loop gives for that value.
C12_EffectiveBeginIsMax ==
  LET maxBegin == IF now > WindowBegin THEN now ELSE WindowBegin IN
  /\ PastWindowTest => begin = maxBegin
  /\ AnchorChosen => now_index = anchor(catalog, maxBegin)

\* now strictly inside the window, and the advance of begin changes the anchor
C12_Witness ==
  /\ AnchorChosen
  /\ now > WindowBegin
  /\ now < end
  /\ begin = now
  /\ now_index # anchor(catalog, WindowBegin)

\* ----------------------------------------------------------------- C13
\* the smallest index (from 0) whose entry is nearest to b over all of cat
GlobalNearest(cat, b) ==
  CHOOSE i \in 0..(Len(cat) - 1) :
    /\ \A j \in 0..(Len(cat) - 1) :
         AbsDiff(validtime(cat[i + 1]), b) <= AbsDiff(validtime(cat[j + 1]), b)
    /\ \A j \in 0..(i - 1) :
         AbsDiff(validtime(cat[j + 1]), b) > AbsDiff(validtime(cat[i + 1]), b)

\* C13: for every non-empty catalog and every effective begin, the anchor
\* index is the smallest index whose entry minimises |validTime - begin| over
\* the whole catalog, whatever the size of the differences.
C13_AnchorIsGlobalNearest ==
  (AnchorChosen /\ catalog # <<>>) => now_index = GlobalNearest(catalog, begin)

\* ----------------------------------------------------------------- C14
\* the first index met going down from a whose valid time exceeds e; -1 when
\* there is none
StopIndex(cat, a, e) ==
  LET over == {i \in 0..a : validtime(cat[i + 1]) > e} IN
  IF over = {} THEN -1
  ELSE CHOOSE i \in over : \A j \in over : j <= i

\* C14: the candidates are catalog[anchor], catalog[anchor - 1], ... in that
\* order down to, and excluding, the first index whose valid time exceeds end
\* (down to index 0 if there is none): contiguous indices, none above the
\* anchor, all with valid time <= end, and nothing below the stopping index.
C14_CandidatesStopAtFirstOverEnd ==
  AnchorChosen
  => LET stop == StopIndex(catalog, now_index, end) IN
     /\ Len(wmetas) = now_index - stop
     /\ \A k \in 1..Len(wmetas) :
          /\ TileMetaEq(wmetas[k], catalog[now_index - k + 2])
          /\ validtime(wmetas[k]) <= end

\* some candidates, a stopping index below them, and under the stopping index
\* an entry that is not after end
C14_Witness ==
  /\ AnchorChosen
  /\ wmetas # <<>>
  /\ LET stop == StopIndex(catalog, now_index, end) IN
     /\ stop >= 1
     /\ \E j \in 0..(stop - 1) : validtime(catalog[j + 1]) <= end

\* ----------------------------------------------------------------- C15
\* the call went through the aggregation and returned
Aggregated == wpc = "returned" /\ ~OutOfWindowError

\* the candidates that produced a precipitation value
Produced == {k \in 1..Len(wmetas) : wmetas[k].precipitation.tag = "Some"}

\* the largest numerator among the values produced (one denominator for all)
MaxProduced ==
  CHOOSE n \in {wmetas[k].precipitation.val.num : k \in Produced} :
    \A k \in Produced : wmetas[k].precipitation.val.num <= n

\* C15: the call reports no peak (the "No Precipitation data" error) if and
\* only if no candidate produced a precipitation value; otherwise the peak is
\* the maximum of the values produced, candidates with none being ignored.
C15_PeakIsMaxOfProduced ==
  Aggregated
  => /\ (wres.tag = "Err" /\ wres.val[1] = "No Precipitation data")
          <=> Produced = {}
     /\ Produced # {}
          => /\ wres.tag = "Ok"
             /\ wres.val.precipitation.num = MaxProduced

\* the larger value comes second, so the fold has to replace the first
C15_Witness ==
  /\ Aggregated
  /\ Len(wmetas) = 2
  /\ Produced = {1, 2}
  /\ wmetas[1].precipitation.val.num < wmetas[2].precipitation.val.num
  /\ wres.tag = "Ok"

\* ----------------------------------------------------------------- C16
\* the two series as the caller can read them from what the call returned
CallerSeries(r) ==
  IF r.tag = "Ok"
  THEN Some([times |-> r.val.times, images |-> r.val.images])
  ELSE None

\* C16: if every candidate slice fails to decode, the caller receives a
\* result with no peak whose times and thumbnails are still populated, each
\* as long as the candidates.
C16_TotalFailureKeepsSeries ==
  (Aggregated /\ wmetas # <<>> /\ Produced = {})
  => /\ wres.tag = "Err"
     /\ CallerSeries(wres).tag = "Some"
     /\ Len(CallerSeries(wres).val.times) = Len(wmetas)
     /\ Len(CallerSeries(wres).val.images) = Len(wmetas)

\* ----------------------------------------------------------------- C17
\* C17: for any successful aggregation, times and images have one element
\* per candidate in candidate order (anchor first), the i-th of each coming
\* from the i-th candidate; a candidate with no precipitation still gives its
\* time and its empty thumbnail.
C17_SeriesParallelToCandidates ==
  (Aggregated /\ wres.tag = "Ok")
  => /\ Len(wres.val.times) = Len(wmetas)
     /\ Len(wres.val.images) = Len(wmetas)
     /\ \A k \in 1..Len(wmetas) :
          /\ wres.val.times[k][1] = validtime(catalog[now_index - k + 2]) % 24
          /\ wres.val.images[k] = wmetas[k].image
          /\ wmetas[k].precipitation.tag = "None" => wres.val.images[k] = <<>>

\* two candidates with different times, the first without a precipitation
C17_Witness ==
  /\ Aggregated
  /\ wres.tag = "Ok"
  /\ Len(wmetas) = 2
  /\ Produced = {2}
  /\ wres.val.times[1] # wres.val.times[2]
  /\ wres.val.images[2] # <<>>

\* ----------------------------------------------------------------- C18
\* C18: cache_push evicts and appends in one mutual-exclusion section, so
\* every state another caller can observe has exactly CACHE_SIZE slots.
C18_AlwaysCacheSizeSlots == Len(cache) = CACHE_SIZE

\* ----------------------------------------------------------------- C19
\* C19: a step in which no caller is inside cache_push (a cache_search, hit or
\* miss) leaves the content and the order of all cache slots unchanged.
C19_SearchLeavesSlots == [][cpc' = cpc => cache' = cache]_vars

\* a search has hit an entry that is not the newest, and the entry is still
\* in front of the newer one
C19_Witness ==
  \E c \in Callers :
    /\ cfound[c].tag = "Ok"
    /\ Len(cache) = CACHE_SIZE
    /\ cache[CACHE_SIZE - 1].tag = "Some"
    /\ TileMetaEq(cache[CACHE_SIZE - 1].val, cfound[c].val)
    /\ cache[CACHE_SIZE].tag = "Some"
    /\ ~TileMetaEq(cache[CACHE_SIZE].val, cfound[c].val)

\* ----------------------------------------------------------------- C20
\* C20: no retries inside one call: the tile requests never outnumber the
\* candidates handed to get_tiles, a resolution issues its request once, and a
\* candidate whose request failed has precipitation None while get_tiles goes
\* on to the next candidate.
C20_NoRetryAndMoveOn ==
  /\ requests <= nres
  /\ FetchFailed(Res)
       => /\ Res.status \in {"push", "done"}
          /\ Res.req
          /\ Res.meta.precipitation = None

\* ----------------------------------------------------------------- C21
\* the slots that hold an entry with the probe's basetime, validtime and member
KeyMatches(probe) ==
  {i \in 1..Len(cache) :
     /\ cache[i].tag = "Some"
     /\ cache[i].val.basetime = probe.basetime
     /\ cache[i].val.validtime = probe.validtime
     /\ cache[i].val.member = probe.member}

\* C21: cache_search returns a stored entry for a probe exactly when the
\* basetime, validtime and member strings are equal, whatever the elements,
\* precipitation and image of the probe and of the entry are, and it returns
\* the oldest such entry when several match.
C21_LookupByKeyTriple ==
  cpc[1] = "searched"
  => LET ms == KeyMatches(carg[1].val) IN
     /\ cfound[1].tag = "Err" <=> ms = {}
     /\ ms # {} =>
          /\ cfound[1].tag = "Ok"
          /\ \E i \in ms : /\ \A j \in ms : i <= j
                           /\ cfound[1].val = cache[i].val

\* two stored entries match a probe that differs from both in elements and
\* payload, and the older one is returned
C21_Witness ==
  /\ cpc[1] = "searched"
  /\ KeyMatches(carg[1].val) = {CACHE_SIZE - 1, CACHE_SIZE}
  /\ cache[CACHE_SIZE - 1].val # cache[CACHE_SIZE].val
  /\ carg[1].val.elements # cache[CACHE_SIZE - 1].val.elements
  /\ carg[1].val.precipitation # cache[CACHE_SIZE - 1].val.precipitation
  /\ cfound[1].tag = "Ok"
  /\ cfound[1].val = cache[CACHE_SIZE - 1].val

\* ----------------------------------------------------------------- C22
\* from_latlon was given (zoom, lat, lon) and returned the tile (x, y)
GeoCase(z, la, lo, x, y) ==
  (tile_out # None /\ tile_in.val = [zoom |-> z, lat |-> la, lon |-> lo])
  => tile_out.val = [zoom |-> z, x |-> x, y |-> y]

\* a tile of zoom FORECAST_ZOOM is this wide, in units of 10^-7 degree
TileWidth == QUARTER_TURN \div 2^(FORECAST_ZOOM - 2)

\* C22: from_latlon is a function of (zoom, lat, lon): one tile for one
\* input, x the column that contains lon, and the four cases of tile_test
\* give (909, 403), (914, 376), (3461, 1761) and (876, 432).
C22_FromLatLonIsProjection ==
  /\ GeoCase(10, 356812400, 1397527660, 909, 403)
  /\ GeoCase(10, 430686663, 1413507557, 914, 376)
  /\ GeoCase(12, 243904605, 1242460321, 3461, 1761)
  /\ GeoCase(10, 268658607, 1282530679, 876, 432)
  /\ tile_out # None
       => /\ from_latlon(tile_in.val.zoom, tile_in.val.lat, tile_in.val.lon)
               = {tile_out.val}
          /\ tile_out.val.zoom = tile_in.val.zoom
  /\ (tile_out # None /\ tile_in.val.zoom = FORECAST_ZOOM)
       => LET col == tile_out.val.x - 2^(FORECAST_ZOOM - 1) IN
          /\ col * TileWidth <= tile_in.val.lon
          /\ tile_in.val.lon < (col + 1) * TileWidth

\* the second case of tile_test, whose y is less than a thousandth of a tile
\* from the row above
C22_Witness ==
  /\ tile_out # None
  /\ tile_in.val = [zoom |-> 10, lat |-> 430686663, lon |-> 1413507557]
  /\ tile_out.val.y = 376

\* ----------------------------------------------------------------- C23
\* place p of database db satisfies every criterion mood m sets
Satisfies(db, p, m) ==
  /\ m.walking.tag = "Some" => p.walking = m.walking.val
  /\ m.parking.tag = "Some" => p.parking = m.parking.val
  /\ m.food.tag = "Some"
       => \E s \in {p.shop[i] : i \in 1..Len(p.shop)} :
            \E x \in {db.shop[j] : j \in 1..Len(db.shop)} :
              x.name = s /\ x.food = m.food.val

\* C23: pickup returns, in catalog order, exactly the places that satisfy
\* every criterion the mood sets; a criterion that is None filters nothing.
C23_PickupIsFilter ==
  mpc = "picked"
  => LET db == places.val
         sat == {i \in 1..Len(db.parking) : Satisfies(db, db.parking[i], mood.val)}
         out == picked.val
     IN /\ Len(out) = Cardinality(sat)
        /\ \A k \in 1..Len(out) :
             \E i \in sat : /\ out[k] = db.parking[i]
                            /\ Cardinality({j \in sat : j < i}) = k - 1

\* food is asked for, a place lists a shop that has it and one that has not,
\* and it is picked after another place
C23_Witness ==
  /\ mpc = "picked"
  /\ mood.val.food = Some(TRUE)
  /\ mood.val.walking = None
  /\ Len(picked.val) = 2
  /\ picked.val[2].shop = <<"s1", "s2">>
  /\ places.val.shop = <<Shop("s1", TRUE), Shop("s2", FALSE)>>

\* ----------------------------------------------------------------- C24
\* get_tiles of the call has returned
TilesResolved == wpc = "aggregate" \/ Aggregated

\* the k-th smallest element of the set of numbers S
RECURSIVE Nth(_, _)
Nth(S, k) ==
  LET m == CHOOSE x \in S : \A y \in S : x <= y IN
  IF k = 1 THEN m ELSE Nth(S \ {m}, k - 1)

\* C24: the cache pushes of one call occur in candidate order: after
\* get_tiles the oldest slots have gone, one per push, and the newest slots
\* hold, in candidate order (anchor first), the candidates that were fetched;
\* a candidate that was not pushed was served from the cache.
C24_PushesInCandidateOrder ==
  TilesResolved
  => /\ npushes <= Len(wmetas)
     /\ SubSeq(cache, 1, CACHE_SIZE - npushes)
          = SubSeq(wcache0, npushes + 1, CACHE_SIZE)
     /\ \E S \in SUBSET (1..Len(wmetas)) :
          /\ Cardinality(S) = npushes
          /\ \A k \in 1..npushes :
               cache[CACHE_SIZE - npushes + k] = Some(wmetas[Nth(S, k)])
          /\ \A c \in (1..Len(wmetas)) \ S :
               wmetas[c].precipitation.tag = "Some"

\* two candidates of different valid times, both fetched and pushed
C24_Witness ==
  /\ TilesResolved
  /\ Len(wmetas) = 2
  /\ npushes = 2
  /\ wmetas[1].validtime > wmetas[2].validtime
  /\ wmetas[1].precipitation # wmetas[2].precipitation

\* ----------------------------------------------------------------- C25
\* C25: whenever the window validation does not return the out-of-window
\* error, both assertions that follow it hold: begin >= now and end > now.
C25_AssertionsHoldPastValidation ==
  (wpc \in {"catalog", "panicked"} /\ ~OutOfWindowError)
  => /\ begin >= now
     /\ end > now

\* ----------------------------------------------------------------- C26
\* the distance of catalog entry i (from 0) to the effective begin
BeginDistance(i) == AbsDiff(validtime(catalog[i + 1]), begin)

\* C26: for every non-empty catalog and every effective begin, the anchor
\* entry is no farther from begin than its immediate predecessor and its
\* immediate successor (the anchor standing in for a missing neighbour), so
\* the anchor assertion never fails.
C26_AnchorNoFartherThanNeighbours ==
  (catalog # <<>> /\ wpc \in {"tiles", "panicked"})
  => LET before == IF now_index = 0 THEN now_index ELSE now_index - 1
         after == IF now_index + 1 >= Len(catalog) THEN now_index ELSE now_index + 1
     IN /\ BeginDistance(now_index) <= BeginDistance(before)
        /\ BeginDistance(now_index) <= BeginDistance(after)

\* ----------------------------------------------------------------- C27
\* the entry the lookup of caller c returned is stored in the cache
LookupIsStored(c) ==
  \E i \in 1..Len(cache) :
    /\ cache[i].tag = "Some"
    /\ cache[i].val.basetime = cur[c].meta.basetime
    /\ cache[i].val.validtime = cur[c].meta.validtime
    /\ cache[i].val.member = cur[c].meta.member
    /\ cache[i].val.precipitation = cur[c].meta.precipitation
    /\ cache[i].val.image = cur[c].meta.image

\* the slots after a step: as before, without the oldest, or with one more
SlotsKept ==
  \/ cache' = cache
  \/ cache # <<>> /\ cache' = Tail(cache)
  \/ Len(cache') = Len(cache) + 1 /\ SubSeq(cache', 1, Len(cache)) = cache

\* C27: under every interleaving of the callers running get_tiles, an entry
\* a lookup returns is an entry a push stored, a stored entry keeps its key,
\* precipitation and thumbnail until it is evicted, and what a caller
\* changes in the copy it received does not alter the cache.
C27_RacingLookupsHarmless ==
  /\ [](\A c \in Callers :
          (cur[c].status \in {"hit", "fetch", "await"} /\ cur[c].found # "Err")
          => LookupIsStored(c))
  /\ [][SlotsKept]_vars
  /\ [][metas' # metas => cache' = cache]_vars

\* a caller was given an entry without precipitation that another caller
\* stored, has fetched the tile again and filled its copy in, and the stored
\* entry is as it was
C27_Witness ==
  \E c \in Callers :
    /\ cur[c].status = "push"
    /\ cur[c].found = "OkNone"
    /\ cur[c].meta.precipitation # None
    /\ tpc[c] = "remove"
    /\ cache[CACHE_SIZE].tag = "Some"
    /\ TileMetaEq(cache[CACHE_SIZE].val, cur[c].meta)
    /\ cache[CACHE_SIZE].val.precipitation = None
    /\ \E d \in Callers \ {c} : cur[d].status = "done"

\* C28: concurrent pushes are equivalent to serial ones. With at most
\* CACHE_SIZE cache_push calls in flight on a cache of CACHE_SIZE slots, no
\* call removes from an empty cache (no panic, no poisoned lock), and
\* whenever no call is between its two lock sections the cache equals the
\* one obtained by running cache_push for the completed calls one at a
\* time, in the order of their appends.
RECURSIVE SerialPushes(_, _)
SerialPushes(v, ms) ==
  IF ms = <<>> THEN v ELSE SerialPushes(cache_push(v, Head(ms)), Tail(ms))

PushesSettled(c0) ==
  NumPushers <= CACHE_SIZE =>
    /\ ~poisoned
    /\ \A c \in Pushers : cpc[c] # "panicked"
    /\ InFlight(cpc) = 0 => cache = SerialPushes(c0, pushed)

C28_ConcurrentPushesSerial ==
  \A c0 \in PushCaches : (cache = c0) => []PushesSettled(c0)

\* every pusher was between its lock sections at the same time, all have
\* completed, and the appends took place in the reverse order of the callers
C28_Witness ==
  /\ \A c \in Pushers : cpc[c] = "done"
  /\ cops = NumPushers
  /\ \A i \in 1..NumPushers : pushed[i].validtime = NumPushers + 1 - i
  /\ cache[1] = CacheFull[NumPushers + 1]
  /\ cache = SerialPushes(CacheFull, pushed)

\* C29: a walking preference the user gave explicitly, by a console option
\* or by the web query, is never changed by the weather check: every mood
\* passed to Places::pickup holds the user's walking value.
UserWalking(q) ==
  IF q.front = "web" THEN q.walking ELSE get_mood_flag(q.walking, q.no_walking)

C29_ExplicitWalkingKept ==
  (picked # None /\ UserWalking(query.val) # None)
    => picked.val.mood.walking = UserWalking(query.val)

\* the console alone keeps the user's walking value
C29_ConsoleKeepsWalking ==
  (query.val.front = "console" /\ picked # None /\ UserWalking(query.val) # None)
    => picked.val.mood.walking = UserWalking(query.val)

\* C30: for every catalog the service returns, the empty one included, the
\* anchor index and every index read by the anchor assertion and by the
\* candidate scan lie within the catalog: the step from the catalog to the
\* candidates never ends by an out-of-range access.
AnchorStepInBounds ==
  wpc = "anchor" =>
    /\ now_index' < Len(catalog)
    /\ anchor_assert(catalog, now_index', begin) # "panic"
    /\ candidates_loop(catalog, end, now_index', <<>>).tag # "panic"

C30_IndicesWithinBounds == [][AnchorStepInBounds]_vars

\* with at least one entry in the catalog the indices are within bounds
C30_InBoundsWhenNonEmpty == [][catalog # <<>> => AnchorStepInBounds]_vars

\* C31: after RecentPlace::today_place(p, part), for every rotation_days and
\* every prior history, check(p, part) returns true and the list of the
\* other part is unchanged.
OtherPart(pod) == IF pod = "Morning" THEN "Afternoon" ELSE "Morning"

JustSuggested == rlast # None /\ rlast.val.op = "today_place"

SuggestionRemembered ==
  /\ RecentPlace_check(recent.val, rlast.val.place, rlast.val.pod)
  /\ RecentPlace_list(recent.val, OtherPart(rlast.val.pod))
       = RecentPlace_list(rlast.val.before, OtherPart(rlast.val.pod))

C31_SuggestionRemembered == JustSuggested => SuggestionRemembered

\* the suggestion is remembered whenever rotation_days is at least 2 or the
\* list of the part held an entry before the call
C31_RememberedUnlessListEmptied ==
  (/\ JustSuggested
   /\ \/ rlast.val.before.rotation_days.val >= 2
      \/ RecentPlace_list(rlast.val.before, rlast.val.pod) # <<>>)
    => SuggestionRemembered

\* the list of the other part is unchanged in every case
C31_OtherPartUnchanged ==
  JustSuggested =>
    RecentPlace_list(recent.val, OtherPart(rlast.val.pod))
      = RecentPlace_list(rlast.val.before, OtherPart(rlast.val.pod))

====
